---- MODULE Spec2Model ----
(***************************************************************************)
(* A model of the surgical agent framework: the annotation normalizer     *)
(* (agents/annotation_agent.py), the annotation producer's background     *)
(* loop, and the deterministic fact extraction / phase smoothing of       *)
(* agents/post_op_note_agent.py.                                           *)
(*                                                                         *)
(* Python strings are TLA+ strings; the string methods the code uses      *)
(* (strip, lower, replace, the `in` substring test, comparison) are       *)
(* computed character by character.  JSON values are tagged records.      *)
(***************************************************************************)
EXTENDS Integers, Sequences, FiniteSets, TLC

VARIABLES
    \* ---- _normalize_annotation_json, applied to a raw mapping
    data,            \* the raw mapping handed to the normalizer
    normalized,      \* its result
    renormalized,    \* the result of normalizing the result again
    npc,             \* "idle" | "raw" | "normalized" | "renormalized"
    \* ---- PostOpNoteAgent: configuration and _extract_facts
    phase_min_consecutive,
    phase_min_dwell_seconds,
    timeline_max_entries,
    ann_list,        \* the annotation records handed to _extract_facts
    note_list,       \* the note records handed to _extract_facts
    anns,            \* ann_list sorted by timestamp
    notes,           \* note_list sorted by timestamp
    ai,              \* position of the smoothing loop in anns
    run_phase,
    run_count,
    run_start_ts,
    accepted_phase,
    last_accept_dt,
    smoothed_segments,
    accept_log,      \* history: the positions in anns at which a segment was accepted
    facts,           \* the returned facts
    epc,             \* "idle" | "load" | "smooth" | "done"
    \* ---- AnnotationAgent: the background loop and _generate_annotation
    frame_queue,
    frame_data,      \* the frame under annotation
    video_loaded,
    consecutive_errors,
    stop_event,
    annotations,     \* self.annotations
    annotation_file, \* the file at self.annotation_filepath
    fallback_annotation,
    retry_count,
    requests,        \* history: model requests made for the frame under annotation
    endpoint_error,  \* history: the error that ended the last request: "none" | "timeout" | "failure"
    produced_by,     \* history: the path that produced each element of annotations
    io_failures,     \* history: the appends the file system failed
    callback_raised, \* history: on_annotation_callback raised in this iteration of the loop
    now,             \* seconds since procedure_start
    ppc,             \* "idle" | "poll" | "request" | "in_flight" | "stopped"
    failed_in_a_row, \* history: the loop iterations that failed since the last pause or success
    clock_end,       \* the last second of the observed run
    \* ---- Agent._llm_lock and the model endpoint
    llm_lock,        \* "free" or the caller that holds the lock
    in_flight,       \* the callers with a request at the endpoint
    \* ---- PostOpNoteAgent.generate_post_op_note
    folder_exists,   \* os.path.isdir(procedure_folder)
    annotation_json, \* annotation.json of the folder
    notetaker_json,  \* notetaker_notes.json of the folder
    post_op_file,    \* post_op_note.json of the folder
    llm_assist_findings,
    final_json,
    note_result,     \* what generate_post_op_note returned
    refinement,      \* history: how the refinement request ended
    note_requests,   \* history: the model requests of the generation
    save_failed,     \* history: the write of the note raised
    gpc,             \* "idle" | "load" | "extract" | "refine" | "refining" | "persist" | "done"
    \* ---- PostOpNoteAgent.__init__: the configurations and the defaults of the note
    agent_settings,  \* the agent's section of its settings file
    global_settings, \* global.yaml
    default_procedure_type,
    default_procedure_nature,
    default_personnel,
    \* ---- Agent.append_json_to_file, call by call
    append_call,     \* the call in progress, or the last one
    appended,        \* history: the records of the completed appends, per file
    \* ---- _extract_facts: the cap on a long timeline
    sorted_timeline, \* `timeline` after sorted(), before the cap
    capped_timeline, \* `timeline` after the cap
    tpc,             \* "idle" | "merged" | "capped"
    \* ---- Agent._wait_for_server
    attempts,
    probe,           \* the last requests.get: none yet, a response with its status, an exception
    waited,          \* history: the seconds slept between the probes
    wpc,             \* "idle" | "loop" | "sleep" | "returned" | "raised"
    \* ---- ehr.builder._chunk_text
    ids,             \* tokenizer.encode(text)
    chunk_tokens,
    overlap_tokens,
    start,
    chunks,          \* the chunks appended so far, each as its token ids
    cpc              \* "idle" | "loop" | "appended" | "returned"

normVars == <<data, normalized, renormalized, npc>>

configVars == <<phase_min_consecutive, phase_min_dwell_seconds, timeline_max_entries>>

inputVars == <<ann_list, note_list>>

smoothVars ==
    <<anns, notes, ai, run_phase, run_count, run_start_ts, accepted_phase,
      last_accept_dt, smoothed_segments, accept_log>>

extractVars == <<configVars, inputVars, smoothVars, facts, epc>>

loopVars == <<frame_queue, video_loaded, consecutive_errors, stop_event>>

lockVars == <<llm_lock, in_flight>>

callVars == <<frame_data, fallback_annotation, retry_count, requests, endpoint_error>>

outputVars == <<annotations, annotation_file, produced_by, io_failures, callback_raised>>

producerVars ==
    <<loopVars, callVars, outputVars, now, ppc, failed_in_a_row, clock_end, lockVars>>

fileVars == <<append_call, appended>>

settingsVars ==
    <<agent_settings, global_settings, default_procedure_type, default_procedure_nature,
      default_personnel>>

capVars == <<sorted_timeline, capped_timeline, tpc>>

waitVars == <<attempts, probe, waited, wpc>>

\* the operations modelled on their own
chunkVars == <<ids, chunk_tokens, overlap_tokens, start, chunks, cpc>>

sideVars == <<capVars, waitVars, chunkVars>>

composeVars ==
    <<folder_exists, annotation_json, notetaker_json, post_op_file, llm_assist_findings, final_json, note_result,
      refinement, note_requests, save_failed, gpc, fileVars, settingsVars, sideVars>>

vars == <<normVars, extractVars, producerVars, composeVars>>

-----------------------------------------------------------------------------
(* Python string methods *)

Char(s, i) == SubSeq(s, i, i)

Uppercase == "ABCDEFGHIJKLMNOPQRSTUVWXYZ"

Lowercase == "abcdefghijklmnopqrstuvwxyz"

\* str.lower() on one character
LowerChar(c) ==
    IF \E i \in 1..Len(Uppercase) : Char(Uppercase, i) = c
    THEN Char(Lowercase, CHOOSE i \in 1..Len(Uppercase) : Char(Uppercase, i) = c)
    ELSE c

RECURSIVE Lower(_)
Lower(s) ==
    IF Len(s) = 0 THEN ""
    ELSE LowerChar(Char(s, 1)) \o Lower(SubSeq(s, 2, Len(s)))

Whitespace == {" ", "\t", "\n"}

RECURSIVE LStrip(_)
LStrip(s) ==
    IF Len(s) > 0 /\ Char(s, 1) \in Whitespace
    THEN LStrip(SubSeq(s, 2, Len(s)))
    ELSE s

RECURSIVE RStrip(_)
RStrip(s) ==
    IF Len(s) > 0 /\ Char(s, Len(s)) \in Whitespace
    THEN RStrip(SubSeq(s, 1, Len(s) - 1))
    ELSE s

\* str.strip()
Strip(s) == RStrip(LStrip(s))

\* str.replace(a, b) for one-character a and b
RECURSIVE Replace(_, _, _)
Replace(s, a, b) ==
    IF Len(s) = 0 THEN ""
    ELSE (IF Char(s, 1) = a THEN b ELSE Char(s, 1)) \o Replace(SubSeq(s, 2, Len(s)), a, b)

\* the substring test `sub in s`
Contains(s, sub) ==
    \E i \in 1..(Len(s) - Len(sub) + 1) : SubSeq(s, i, i + Len(sub) - 1) = sub

\* the characters of the model's strings, in code point order
CodePoints == "\t\n !'(),-0123456789:;ABCDEFGHIJKLMNOPQRSTUVWXYZ[]_abcdefghijklmnopqrstuvwxyz{}"

CharCode(c) == CHOOSE i \in 1..Len(CodePoints) : Char(CodePoints, i) = c

\* Python's a < b on strings
RECURSIVE StrLess(_, _)
StrLess(a, b) ==
    IF Len(b) = 0 THEN FALSE
    ELSE IF Len(a) = 0 THEN TRUE
    ELSE IF Char(a, 1) = Char(b, 1)
         THEN StrLess(SubSeq(a, 2, Len(a)), SubSeq(b, 2, Len(b)))
         ELSE CharCode(Char(a, 1)) < CharCode(Char(b, 1))

\* sorted(list) on strings: insertion of each element after the elements not greater
RECURSIVE InsertStr(_, _)
InsertStr(sorted, x) ==
    IF sorted = <<>> THEN <<x>>
    ELSE IF StrLess(x, Head(sorted)) THEN <<x>> \o sorted
    ELSE <<Head(sorted)>> \o InsertStr(Tail(sorted), x)

RECURSIVE SortedStrs(_)
SortedStrs(l) ==
    IF l = <<>> THEN <<>>
    ELSE InsertStr(SortedStrs(SubSeq(l, 1, Len(l) - 1)), l[Len(l)])

\* list(dict.fromkeys(l)): the first occurrence of each element, in order
RECURSIVE FromKeys(_)
FromKeys(l) ==
    IF l = <<>> THEN <<>>
    ELSE LET init == FromKeys(SubSeq(l, 1, Len(l) - 1))
             x == l[Len(l)]
         IN IF \E i \in DOMAIN init : init[i] = x THEN init ELSE Append(init, x)

-----------------------------------------------------------------------------
(* JSON values as Python objects *)

PStr(s) == [py |-> "str", s |-> s]

PNone == [py |-> "NoneType"]

PInt(n) == [py |-> "int", n |-> n]

PBool(b) == [py |-> "bool", b |-> b]

PList(items) == [py |-> "list", items |-> items]

Digits == "0123456789"

RECURSIVE IntStr(_)
IntStr(n) ==
    IF n < 10 THEN Char(Digits, n + 1)
    ELSE IntStr(n \div 10) \o Char(Digits, (n % 10) + 1)

\* the first position at or after i that holds no digit
RECURSIVE DigitsEnd(_, _)
DigitsEnd(s, i) ==
    IF i <= Len(s) /\ Contains(Digits, Char(s, i)) THEN DigitsEnd(s, i + 1) ELSE i

\* repr(x) of a scalar inside a list
PyRepr(x) ==
    CASE x.py = "str" -> "'" \o x.s \o "'"
      [] x.py = "NoneType" -> "None"
      [] x.py = "int" -> IntStr(x.n)
      [] x.py = "bool" -> (IF x.b THEN "True" ELSE "False")
      [] OTHER -> "[]"

RECURSIVE JoinReprs(_)
JoinReprs(items) ==
    IF items = <<>> THEN ""
    ELSE IF Len(items) = 1 THEN PyRepr(items[1])
    ELSE PyRepr(items[1]) \o ", " \o JoinReprs(Tail(items))

\* str(x)
PyStr(x) ==
    CASE x.py = "str" -> x.s
      [] x.py = "NoneType" -> "None"
      [] x.py = "int" -> IntStr(x.n)
      [] x.py = "bool" -> (IF x.b THEN "True" ELSE "False")
      [] x.py = "list" -> "[" \o JoinReprs(x.items) \o "]"

-----------------------------------------------------------------------------
(* AnnotationAgent._normalize_annotation_json *)

tools_enum == {"scissors", "hook", "clipper", "grasper", "bipolar", "irrigator", "none"}

anatomy_enum ==
    {"gallbladder", "cystic_duct", "cystic_artery", "omentum", "liver",
     "blood_vessel", "abdominal_wall", "peritoneum", "gut", "specimen_bag", "none"}

phase_enum ==
    {"preparation", "calots_triangle_dissection", "clipping_and_cutting",
     "gallbladder_dissection", "gallbladder_packaging", "cleaning_and_coagulation",
     "gallbladder_extraction"}

ToolsKeys == <<"tools", "Tools", "tool", "Tool", "instruments", "Instruments">>

AnatomyKeys == <<"anatomy", "Anatomy", "anatomies", "Anatomies", "structures", "Structures">>

PhaseKeys == <<"surgical_phase", "SurgicalPhase", "Surgical_Phase", "Phase", "phase">>

DescKeys == <<"description", "Description", "desc", "Desc">>

\* the value of the first key of `keys` that d has, else the default
get_any(d, keys, default) ==
    IF \E i \in DOMAIN keys : keys[i] \in DOMAIN d
    THEN d[keys[CHOOSE i \in DOMAIN keys :
                  /\ keys[i] \in DOMAIN d
                  /\ \A j \in 1..(i - 1) : keys[j] \notin DOMAIN d]]
    ELSE default

to_list(v) ==
    IF v.py = "NoneType" THEN <<>>
    ELSE IF v.py = "list" THEN v.items
    ELSE <<v>>

\* [str(x).strip().lower() for x in to_list(v)]
CleanList(v) == [i \in DOMAIN to_list(v) |-> Lower(Strip(PyStr(to_list(v)[i])))]

\* synonym_map_tools.get(x, x)
synonym_map_tools(x) ==
    CASE x = "forceps" -> "grasper"
      [] x = "grasper" -> "grasper"
      [] x = "clip-applier" -> "clipper"
      [] OTHER -> x

\* EnforceEnum without the enum filter
EnforceEnum_unfiltered(l, enum) ==
    IF l = <<>> THEN <<"none">> ELSE l

\* [x for x in l if x in enum], and ['none'] when nothing is left
EnforceEnum(l, enum) ==
    LET kept == SelectSeq(l, LAMBDA x : x \in enum)
    IN IF kept = <<>> THEN <<"none">> ELSE kept

NormalizeTools(raw_tools) ==
    LET cleaned == CleanList(raw_tools)
        mapped == [i \in DOMAIN cleaned |-> synonym_map_tools(cleaned[i])]
    IN EnforceEnum(mapped, tools_enum)

NormalizeAnatomy(raw_anatomy) ==
    LET cleaned == CleanList(raw_anatomy)
        under == [i \in DOMAIN cleaned |-> Replace(cleaned[i], " ", "_")]
    IN EnforceEnum(under, anatomy_enum)

\* the ordered keyword rules applied to a phase outside the enum
PhaseHeuristic(phase) ==
    IF Contains(phase, "clip") /\ Contains(phase, "cut") THEN "clipping_and_cutting"
    ELSE IF Contains(phase, "calot") \/ Contains(phase, "triangle") THEN "calots_triangle_dissection"
    ELSE IF Contains(phase, "pack") THEN "gallbladder_packaging"
    ELSE IF Contains(phase, "dissect") /\ Contains(phase, "gallbladder") THEN "gallbladder_dissection"
    ELSE IF Contains(phase, "clean") \/ Contains(phase, "coag") THEN "cleaning_and_coagulation"
    ELSE IF Contains(phase, "extract") THEN "gallbladder_extraction"
    ELSE "preparation"

NormalizePhase(raw_phase) ==
    LET phase == Replace(Replace(Lower(Strip(PyStr(raw_phase))), "-", "_"), " ", "_")
    IN IF phase \in phase_enum THEN phase ELSE PhaseHeuristic(phase)

\* DescriptionMissing testing `not description`, without the strip
DescriptionMissing_unstripped(description) ==
    description.py # "str" \/ description.s = ""

\* not isinstance(description, str) or not description.strip()
DescriptionMissing(description) ==
    description.py # "str" \/ Strip(description.s) = ""

SynthDescription(tools_list, anatomy_list) ==
    IF tools_list # <<>> /\ anatomy_list # <<>>
       /\ tools_list # <<"none">> /\ anatomy_list # <<"none">>
    THEN tools_list[1] \o " interacting with " \o anatomy_list[1]
    ELSE "Scene reviewed; limited identifiable details"

_normalize_annotation_json(d) ==
    LET raw_tools == get_any(d, ToolsKeys, PList(<<>>))
        raw_anatomy == get_any(d, AnatomyKeys, PList(<<>>))
        raw_phase == get_any(d, PhaseKeys, PStr("preparation"))
        raw_desc == get_any(d, DescKeys, PNone)
        tools_list == NormalizeTools(raw_tools)
        anatomy_list == NormalizeAnatomy(raw_anatomy)
        description == IF DescriptionMissing(raw_desc)
                       THEN SynthDescription(tools_list, anatomy_list)
                       ELSE raw_desc.s
    IN [tools |-> SortedStrs(FromKeys(tools_list)),
        anatomy |-> SortedStrs(FromKeys(anatomy_list)),
        surgical_phase |-> NormalizePhase(raw_phase),
        description |-> Strip(description)]

\* the returned dict, read as a raw mapping again
AsMapping(n) ==
    [tools |-> PList([i \in DOMAIN n.tools |-> PStr(n.tools[i])]),
     anatomy |-> PList([i \in DOMAIN n.anatomy |-> PStr(n.anatomy[i])]),
     surgical_phase |-> PStr(n.surgical_phase),
     description |-> PStr(n.description)]

-----------------------------------------------------------------------------
(* Timestamps: time.strftime and datetime.strptime with "%Y-%m-%d %H:%M:%S" *)

Pad2(n) == IF n < 10 THEN "0" \o IntStr(n) ELSE IntStr(n)

Pad4(n) ==
    IF n < 10 THEN "000" \o IntStr(n)
    ELSE IF n < 100 THEN "00" \o IntStr(n)
    ELSE IF n < 1000 THEN "0" \o IntStr(n)
    ELSE IntStr(n)

\* time.strftime("%Y-%m-%d %H:%M:%S", t) of a struct_time
strftime(t) ==
    Pad4(t.tm_year) \o "-" \o Pad2(t.tm_mon) \o "-" \o Pad2(t.tm_mday) \o " "
    \o Pad2(t.tm_hour) \o ":" \o Pad2(t.tm_min) \o ":" \o Pad2(t.tm_sec)

\* the value of a string of decimal digits, -1 for anything else
RECURSIVE DigitsValue(_)
DigitsValue(s) ==
    IF Len(s) = 0 THEN -1
    ELSE LET c == Char(s, Len(s))
             d == IF \E i \in 1..10 : Char(Digits, i) = c
                  THEN (CHOOSE i \in 1..10 : Char(Digits, i) = c) - 1
                  ELSE -1
         IN IF d = -1 THEN -1
            ELSE IF Len(s) = 1 THEN d
            ELSE LET rest == DigitsValue(SubSeq(s, 1, Len(s) - 1))
                 IN IF rest = -1 THEN -1 ELSE rest * 10 + d

\* the first position of character c in s at or after `from`, 0 when there is none
IndexOf(s, c, from) ==
    IF \E i \in from..Len(s) : Char(s, i) = c
    THEN CHOOSE i \in from..Len(s) : Char(s, i) = c /\ \A j \in from..(i - 1) : Char(s, j) # c
    ELSE 0

IsLeap(y) == (y % 4 = 0 /\ y % 100 # 0) \/ y % 400 = 0

DaysInMonth(y, m) ==
    IF m = 2 THEN (IF IsLeap(y) THEN 29 ELSE 28)
    ELSE IF m \in {4, 6, 9, 11} THEN 30 ELSE 31

RECURSIVE DaysBeforeMonth(_, _)
DaysBeforeMonth(y, m) ==
    IF m = 1 THEN 0 ELSE DaysBeforeMonth(y, m - 1) + DaysInMonth(y, m - 1)

\* date.toordinal(): day 1 is 0001-01-01
ToOrdinal(y, m, d) ==
    365 * (y - 1) + ((y - 1) \div 4) - ((y - 1) \div 100) + ((y - 1) \div 400)
    + DaysBeforeMonth(y, m) + d

Datetime(y, mo, d, h, mi, sec) ==
    [py |-> "datetime", ordinal |-> ToOrdinal(y, mo, d), second |-> h * 3600 + mi * 60 + sec]

\* datetime.min
DatetimeMin == Datetime(1, 1, 1, 0, 0, 0)

\* a < b on datetimes
DtLess(a, b) ==
    a.ordinal < b.ordinal \/ (a.ordinal = b.ordinal /\ a.second < b.second)

\* (a - b).total_seconds()
TotalSeconds(a, b) == (a.ordinal - b.ordinal) * 86400 + (a.second - b.second)

\* datetime.strptime(ts, "%Y-%m-%d %H:%M:%S"), PNone where it raises: a 4-digit
\* year and 1-2 digit fields between the separators, each within its range
strptime(ts) ==
    LET d1 == IndexOf(ts, "-", 1)
        d2 == IF d1 = 0 THEN 0 ELSE IndexOf(ts, "-", d1 + 1)
        sp == IF d2 = 0 THEN 0 ELSE IndexOf(ts, " ", d2 + 1)
        c1 == IF sp = 0 THEN 0 ELSE IndexOf(ts, ":", sp + 1)
        c2 == IF c1 = 0 THEN 0 ELSE IndexOf(ts, ":", c1 + 1)
        Field(a, b) == SubSeq(ts, a, b)
        Short(f) == Len(f) \in {1, 2}
    IN IF c2 = 0 THEN PNone
       ELSE LET fy == Field(1, d1 - 1)
                fm == Field(d1 + 1, d2 - 1)
                fd == Field(d2 + 1, sp - 1)
                fh == Field(sp + 1, c1 - 1)
                fi == Field(c1 + 1, c2 - 1)
                fs == Field(c2 + 1, Len(ts))
                y == DigitsValue(fy)
                mo == DigitsValue(fm)
                d == DigitsValue(fd)
                h == DigitsValue(fh)
                mi == DigitsValue(fi)
                sec == DigitsValue(fs)
            IN IF /\ Len(fy) = 4 /\ Short(fm) /\ Short(fd) /\ Short(fh) /\ Short(fi) /\ Short(fs)
                  /\ y >= 1 /\ mo \in 1..12 /\ d >= 1 /\ h \in 0..23 /\ mi \in 0..59
                  /\ sec \in 0..59
                  /\ d <= DaysInMonth(y, mo)
               THEN Datetime(y, mo, d, h, mi, sec)
               ELSE PNone

\* the wall clock of the model, `offset` seconds after 2025-03-04 09:59:40
LocalTime(offset) ==
    LET sod == 9 * 3600 + 59 * 60 + 40 + offset
    IN [tm_year |-> 2025, tm_mon |-> 3, tm_mday |-> 4,
        tm_hour |-> sod \div 3600, tm_min |-> (sod % 3600) \div 60, tm_sec |-> sod % 60]

-----------------------------------------------------------------------------
(* PostOpNoteAgent._extract_facts: sorting and phase smoothing *)

\* PostOpNoteAgent._parse_ts: the datetime, or None when strptime raises
_parse_ts(ts) ==
    IF ts.py # "str" THEN PNone
    ELSE strptime(ts.s)

\* Python truth of a JSON value
Truthy(v) ==
    CASE v.py = "NoneType" -> FALSE
      [] v.py = "str" -> v.s # ""
      [] v.py = "int" -> v.n # 0
      [] v.py = "bool" -> v.b
      [] v.py = "list" -> v.items # <<>>
      [] OTHER -> TRUE

\* v or default
PyOr(v, default) == IF Truthy(v) THEN v ELSE default

\* ts_key: the parsed timestamp, datetime.min when there is none
ts_key(x) ==
    LET dt == IF x.timestamp.py = "str" THEN _parse_ts(x.timestamp) ELSE PNone
    IN IF dt = PNone THEN DatetimeMin ELSE dt

\* sorted(l, key=ts_key): stable, each record placed after those not later than it
RECURSIVE InsertByTs(_, _)
InsertByTs(sorted, x) ==
    IF sorted = <<>> THEN <<x>>
    ELSE IF DtLess(ts_key(x), ts_key(Head(sorted))) THEN <<x>> \o sorted
    ELSE <<Head(sorted)>> \o InsertByTs(Tail(sorted), x)

RECURSIVE SortedByTs(_)
SortedByTs(l) ==
    IF l = <<>> THEN <<>>
    ELSE InsertByTs(SortedByTs(SubSeq(l, 1, Len(l) - 1)), l[Len(l)])

\* the smoothing loop skips an annotation without a string phase or a parsable timestamp
Skipped(a) ==
    a.surgical_phase.py # "str" \/ _parse_ts(PyOr(a.timestamp, PStr(""))) = PNone

\* RunAfter counting on without starting a new run at a phase change
RunAfter_noreset(a) ==
    IF a.surgical_phase = run_phase
    THEN [phase |-> run_phase, count |-> run_count + 1, start_ts |-> run_start_ts]
    ELSE [phase |-> a.surgical_phase, count |-> run_count + 1,
          start_ts |-> PyOr(a.timestamp, PStr(""))]

\* the run the annotation belongs to: it continues the run of its phase or starts one
RunAfter(a) ==
    IF a.surgical_phase = run_phase
    THEN [phase |-> run_phase, count |-> run_count + 1, start_ts |-> run_start_ts]
    ELSE [phase |-> a.surgical_phase, count |-> 1, start_ts |-> PyOr(a.timestamp, PStr(""))]

\* DwellOk without the dwell test
DwellOk_always(ts_dt) == TRUE

\* dwell_ok: the first acceptance, or min dwell seconds after the last one
DwellOk(ts_dt) ==
    IF last_accept_dt # PNone
    THEN TotalSeconds(ts_dt, last_accept_dt) >= phase_min_dwell_seconds
    ELSE TRUE

\* Accepts without the test that the run's phase differs from the accepted one
Accepts_reaccepting(a) ==
    LET run == RunAfter(a)
    IN /\ run.count >= phase_min_consecutive
       /\ DwellOk(_parse_ts(PyOr(a.timestamp, PStr(""))))

\* Accepts with the run length compared by > instead of >=
Accepts_strict(a) ==
    LET run == RunAfter(a)
    IN /\ accepted_phase # run.phase
       /\ run.count > phase_min_consecutive
       /\ DwellOk(_parse_ts(PyOr(a.timestamp, PStr(""))))

\* whether the annotation closes an accepted transition
Accepts(a) ==
    LET run == RunAfter(a)
    IN /\ accepted_phase # run.phase
       /\ run.count >= phase_min_consecutive
       /\ DwellOk(_parse_ts(PyOr(a.timestamp, PStr(""))))

\* AcceptedPhaseAfter leaving accepted_phase as it was
AcceptedPhaseAfter_stale(run) == accepted_phase

\* accepted_phase = run_phase, on acceptance
AcceptedPhaseAfter(run) == run.phase

\* last_accept_dt = ts_dt, on acceptance
AcceptTimeAfter(a, run) == _parse_ts(PyOr(a.timestamp, PStr("")))

-----------------------------------------------------------------------------
(* PostOpNoteAgent._extract_facts: what is derived from the smoothed segments *)

Min(a, b) == IF a < b THEN a ELSE b

Max(a, b) == IF a > b THEN a ELSE b

\* l[:n] for n >= 0
SliceHead(l, n) == SubSeq(l, 1, Min(n, Len(l)))

\* SliceTail taking the first n elements instead of the last n
SliceTail_fromstart(l, n) == SubSeq(l, 1, Min(n, Len(l)))

\* l[-n:] for n >= 0 (l[-0:] is the whole list)
SliceTail(l, n) == IF n = 0 THEN l ELSE SubSeq(l, Max(1, Len(l) - n + 1), Len(l))

\* start_ts_str / end_ts_str: the first / last timestamp of the annotations, else of the notes
StartTs(as, ns) ==
    IF as # <<>> THEN PyOr(as[1].timestamp, PNone)
    ELSE IF ns # <<>> THEN PyOr(ns[1].timestamp, PNone)
    ELSE PNone

EndTs(as, ns) ==
    IF as # <<>> THEN PyOr(as[Len(as)].timestamp, PNone)
    ELSE IF ns # <<>> THEN PyOr(ns[Len(ns)].timestamp, PNone)
    ELSE PNone

\* phases_ordered: each segment phase at its first occurrence
RECURSIVE PhasesOrdered(_)
PhasesOrdered(segs) ==
    IF segs = <<>> THEN <<>>
    ELSE LET init == PhasesOrdered(SubSeq(segs, 1, Len(segs) - 1))
             ph == segs[Len(segs)].phase
         IN IF \E i \in DOMAIN init : init[i] = ph THEN init ELSE Append(init, ph)

\* phase_first_seen_time overwritten at every segment of the phase
PhaseFirstSeenTime_overwritten(segs) ==
    [ph \in {segs[i].phase : i \in DOMAIN segs} |->
        segs[CHOOSE i \in DOMAIN segs :
                /\ segs[i].phase = ph
                /\ \A j \in (i + 1)..Len(segs) : segs[j].phase # ph].start_time]

\* phase_first_seen_time: the start_time of the first segment of each phase
PhaseFirstSeenTime(segs) ==
    [ph \in {segs[i].phase : i \in DOMAIN segs} |->
        segs[CHOOSE i \in DOMAIN segs :
                /\ segs[i].phase = ph
                /\ \A j \in 1..(i - 1) : segs[j].phase # ph].start_time]

\* phase_durations with each segment of a phase replacing the seconds of the earlier ones
RECURSIVE PhaseDurations_overwritten(_, _, _)
PhaseDurations_overwritten(segs, n, end_ts_str) ==
    IF n = 0 THEN <<>>
    ELSE LET before == PhaseDurations_overwritten(segs, n - 1, end_ts_str)
             st_dt == _parse_ts(PStr(segs[n].start_time))
             next_dt == IF n + 1 <= Len(segs) /\ _parse_ts(PStr(segs[n + 1].start_time)) # PNone
                        THEN _parse_ts(PStr(segs[n + 1].start_time))
                        ELSE _parse_ts(end_ts_str)
         IN IF st_dt = PNone \/ next_dt = PNone THEN before
            ELSE (segs[n].phase :> Max(0, TotalSeconds(next_dt, st_dt))) @@ before

\* phase_durations with every segment counted up to the end of the procedure
RECURSIVE PhaseDurations_to_end(_, _, _)
PhaseDurations_to_end(segs, n, end_ts_str) ==
    IF n = 0 THEN <<>>
    ELSE LET before == PhaseDurations_to_end(segs, n - 1, end_ts_str)
             st_dt == _parse_ts(PStr(segs[n].start_time))
             next_dt == _parse_ts(end_ts_str)
             sofar == IF segs[n].phase \in DOMAIN before THEN before[segs[n].phase] ELSE 0
         IN IF st_dt = PNone \/ next_dt = PNone THEN before
            ELSE (segs[n].phase :> sofar + Max(0, TotalSeconds(next_dt, st_dt))) @@ before

\* phase_durations after the first n segments
RECURSIVE PhaseDurations(_, _, _)
PhaseDurations(segs, n, end_ts_str) ==
    IF n = 0 THEN <<>>
    ELSE LET before == PhaseDurations(segs, n - 1, end_ts_str)
             ph == segs[n].phase
             st_dt == _parse_ts(PStr(segs[n].start_time))
             end_dt == _parse_ts(end_ts_str)
             next_dt == IF n + 1 <= Len(segs)
                        THEN (IF _parse_ts(PStr(segs[n + 1].start_time)) # PNone
                              THEN _parse_ts(PStr(segs[n + 1].start_time))
                              ELSE end_dt)
                        ELSE end_dt
             sofar == IF ph \in DOMAIN before THEN before[ph] ELSE 0
         IN IF st_dt = PNone \/ next_dt = PNone THEN before
            ELSE (ph :> (sofar + Max(0, TotalSeconds(next_dt, st_dt)))) @@ before

\* phase_events: one per smoothed segment
PhaseEvents(segs) ==
    [i \in DOMAIN segs |->
        [time |-> segs[i].start_time, event |-> "Phase started: " \o segs[i].phase]]

\* note_events: one per note whose stripped text is not empty
RECURSIVE NoteEvents(_)
NoteEvents(ns) ==
    IF ns = <<>> THEN <<>>
    ELSE LET n == ns[Len(ns)]
             txt == Strip(PyOr(n.text, PStr("")).s)
             init == NoteEvents(SubSeq(ns, 1, Len(ns) - 1))
         IN IF txt = "" THEN init
            ELSE Append(init, [time |-> PyOr(n.timestamp, PStr("")).s,
                               event |-> "Note: " \o txt])

\* the timeline sort key of an event
EventKey(e) ==
    IF _parse_ts(PStr(e.time)) = PNone THEN DatetimeMin ELSE _parse_ts(PStr(e.time))

RECURSIVE InsertByTime(_, _)
InsertByTime(sorted, e) ==
    IF sorted = <<>> THEN <<e>>
    ELSE IF DtLess(EventKey(e), EventKey(Head(sorted))) THEN <<e>> \o sorted
    ELSE <<Head(sorted)>> \o InsertByTime(Tail(sorted), e)

RECURSIVE SortedByTime(_)
SortedByTime(l) ==
    IF l = <<>> THEN <<>>
    ELSE InsertByTime(SortedByTime(SubSeq(l, 1, Len(l) - 1)), l[Len(l)])

\* the synthetic marker; "..." stands for the ellipsis character of the source
EllipsisEvent(omitted, start_ts_str) ==
    [time |-> PyOr(start_ts_str, PStr("Not specified")).s,
     event |-> "... " \o IntStr(omitted) \o " events omitted ..."]

\* the cap on the timeline length
CapTimeline(timeline, start_ts_str) ==
    IF timeline_max_entries # 0 /\ Len(timeline) > timeline_max_entries
    THEN LET omitted == Len(timeline) - timeline_max_entries
             keep_head == Min(50, timeline_max_entries \div 4)
             keep_tail == timeline_max_entries - keep_head
         IN SliceHead(timeline, keep_head)
            \o <<EllipsisEvent(omitted, start_ts_str)>>
            \o SliceTail(timeline, keep_tail)
    ELSE timeline

\* the timeline before the cap
MergedTimeline(segs, ns) == SortedByTime(PhaseEvents(segs) \o NoteEvents(ns))

\* duration_seconds: the elapsed time of the last annotation that carries a number,
\* else the seconds from start to end, None when a timestamp is missing or unparsable
DurationSeconds(as, start_ts_str, end_ts_str) ==
    LET timed == SelectSeq(as, LAMBDA a : /\ "elapsed_time_seconds" \in DOMAIN a
                                         /\ a.elapsed_time_seconds.py = "int")
        d0 == _parse_ts(start_ts_str)
        d1 == _parse_ts(end_ts_str)
    IN IF timed # <<>> THEN timed[Len(timed)].elapsed_time_seconds
       ELSE IF d0 # PNone /\ d1 # PNone THEN PInt(Max(0, TotalSeconds(d1, d0)))
       ELSE PNone

\* the strings other than "none" in a.get(key, []) or [], over the annotations in order
\* (a value that cannot be iterated raises: ExtractRaises)
\* the aggregation taking only the annotations whose timestamp parses
RECURSIVE Aggregated_timed(_, _)
Aggregated_timed(as, key) ==
    IF as = <<>> THEN <<>>
    ELSE LET a == as[Len(as)]
             v == IF key \in DOMAIN a THEN PyOr(a[key], PList(<<>>)) ELSE PList(<<>>)
             seen == IF v.py = "list" /\ _parse_ts(a.timestamp) # PNone
                     THEN SelectSeq(v.items, LAMBDA t : t.py = "str" /\ t.s # "none")
                     ELSE <<>>
         IN Aggregated_timed(SubSeq(as, 1, Len(as) - 1), key) \o [i \in DOMAIN seen |-> seen[i].s]

RECURSIVE Aggregated(_, _)
Aggregated(as, key) ==
    IF as = <<>> THEN <<>>
    ELSE LET a == as[Len(as)]
             v == IF key \in DOMAIN a THEN PyOr(a[key], PList(<<>>)) ELSE PList(<<>>)
             seen == IF v.py = "list"
                     THEN SelectSeq(v.items, LAMBDA t : t.py = "str" /\ t.s # "none")
                     ELSE <<>>
         IN Aggregated(SubSeq(as, 1, Len(as) - 1), key) \o [i \in DOMAIN seen |-> seen[i].s]

\* the regular expression of the blood-loss search, on a lowered text:
\* \b(?:ebl|blood\s*loss)\b\s*[:=-]?\s*(\d{1,5})\s*(ml|cc)?

WordChars == Lowercase \o Uppercase \o Digits \o "_"

\* position i of s holds a word character
IsWordAt(s, i) == i >= 1 /\ i <= Len(s) /\ Contains(WordChars, Char(s, i))

\* \b between positions i - 1 and i
WordBoundary(s, i) == IsWordAt(s, i - 1) # IsWordAt(s, i)

\* \s* from position i: the first position that holds no whitespace
RECURSIVE SkipSpace(_, _)
SkipSpace(s, i) ==
    IF i <= Len(s) /\ Char(s, i) \in Whitespace THEN SkipSpace(s, i + 1) ELSE i

\* s holds w at position i
StartsWith(s, i, w) == i + Len(w) - 1 <= Len(s) /\ SubSeq(s, i, i + Len(w) - 1) = w

\* (?:ebl|blood\s*loss) at position i: the position after it, 0 without a match
KeywordEnd(s, i) ==
    IF StartsWith(s, i, "ebl") THEN i + 3
    ELSE IF StartsWith(s, i, "blood") /\ StartsWith(s, SkipSpace(s, i + 5), "loss")
         THEN SkipSpace(s, i + 5) + 4
    ELSE 0

\* the match of the expression that starts at position i
BloodLossAt(s, i) ==
    LET j == KeywordEnd(s, i)
        sep == SkipSpace(s, j)
        num == SkipSpace(s, IF sep <= Len(s) /\ Char(s, sep) \in {":", "=", "-"}
                            THEN sep + 1 ELSE sep)
        stop == Min(DigitsEnd(s, num), num + 5)
        u == SkipSpace(s, stop)
    IN IF j = 0 \/ ~WordBoundary(s, i) \/ ~WordBoundary(s, j) \/ stop = num
       THEN [ok |-> FALSE]
       ELSE [ok |-> TRUE,
             val |-> SubSeq(s, num, stop - 1),
             unit |-> IF StartsWith(s, u, "ml") THEN "ml"
                      ELSE IF StartsWith(s, u, "cc") THEN "cc"
                      ELSE "ml"]

\* re.search: the match at the leftmost position that has one
BloodLossSearch(s) ==
    LET starts == {i \in 1..Len(s) : BloodLossAt(s, i).ok}
    IN IF starts = {} THEN [ok |-> FALSE]
       ELSE BloodLossAt(s, CHOOSE i \in starts : \A k \in starts : i <= k)

\* the stripped text of a note, "" when it has none
NoteText(n) == Strip(PyOr(n.text, PStr("")).s)

\* BloodLossEstimate with every matching note replacing the estimate
RECURSIVE BloodLossEstimate_lastmatch(_, _)
BloodLossEstimate_lastmatch(ns, blood_loss_estimate) ==
    IF ns = <<>> THEN blood_loss_estimate
    ELSE LET m == BloodLossSearch(Lower(NoteText(Head(ns))))
         IN BloodLossEstimate_lastmatch(Tail(ns),
                IF NoteText(Head(ns)) # "" /\ m.ok
                THEN PStr(m.val \o " " \o m.unit)
                ELSE blood_loss_estimate)

\* blood_loss_estimate after the loop over the notes, from its value before
RECURSIVE BloodLossEstimate(_, _)
BloodLossEstimate(ns, blood_loss_estimate) ==
    IF ns = <<>> THEN blood_loss_estimate
    ELSE LET m == BloodLossSearch(Lower(NoteText(Head(ns))))
         IN BloodLossEstimate(Tail(ns),
                IF NoteText(Head(ns)) # "" /\ m.ok /\ ~Truthy(blood_loss_estimate)
                THEN PStr(m.val \o " " \o m.unit)
                ELSE blood_loss_estimate)

\* the facts dict returned by _extract_facts
Facts ==
    [start_time |-> StartTs(anns, notes),
     end_time |-> EndTs(anns, notes),
     duration_seconds |-> DurationSeconds(anns, StartTs(anns, notes), EndTs(anns, notes)),
     tools |-> SortedStrs(FromKeys(Aggregated(anns, "tools"))),
     anatomy |-> SortedStrs(FromKeys(Aggregated(anns, "anatomy"))),
     phases_ordered |-> PhasesOrdered(smoothed_segments),
     phase_first_seen_time |-> PhaseFirstSeenTime(smoothed_segments),
     phase_durations |->
        PhaseDurations(smoothed_segments, Len(smoothed_segments), EndTs(anns, notes)),
     timeline |->
        CapTimeline(MergedTimeline(smoothed_segments, notes), StartTs(anns, notes)),
     blood_loss_estimate |-> BloodLossEstimate(notes, PNone)]

-----------------------------------------------------------------------------
(* The normalizer applied to raw mappings *)

\* the most keys a raw mapping of the model carries
MaxKeys == 2

RawTools ==
    {PStr(" Hook "), PStr("FORCEPS"), PStr("clip-applier"), PNone,
     PList(<<>>), PList(<<PStr("scissors"), PStr("hook")>>),
     PList(<<PStr("hook"), PStr("HOOK\n")>>), PList(<<PNone>>),
     PList(<<PStr("none"), PStr("Grasper")>>), PList(<<PStr("laser"), PInt(12)>>)}

RawAnatomy ==
    {PStr("Cystic Duct"), PStr("spleen"), PNone, PBool(TRUE),
     PList(<<PStr("liver"), PStr("gallbladder"), PStr("liver")>>),
     PList(<<PStr("specimen bag"), PStr("none")>>), PList(<<>>)}

RawPhases ==
    {PStr("gallbladder_dissection"), PStr(" Clipping-and-Cutting "), PStr("clip then cut"),
     PStr("Calot dissection"), PStr("packing"), PStr("dissecting the gallbladder"),
     PStr("coagulating"), PStr("Extraction"),
     PNone, PInt(3), PList(<<PStr("triangle")>>)}

RawDescs ==
    {PStr("Grasper retracting gallbladder"), PStr("  padded text\n"), PStr("   "),
     PStr(""), PNone, PInt(5)}

\* the (key, value) entries a raw mapping is drawn from
RawEntries ==
    ({"Tool", "tools"} \X RawTools)
    \cup ({"Anatomy", "structures"} \X RawAnatomy)
    \cup ({"surgical_phase", "Phase"} \X RawPhases)
    \cup ({"description", "Desc"} \X RawDescs)
    \cup ({"confidence"} \X {PInt(90)})

\* the annotation producer when it is not in use
ProducerIdle ==
    /\ frame_queue = <<>>
    /\ frame_data = PNone
    /\ video_loaded = FALSE
    /\ consecutive_errors = 0
    /\ stop_event = FALSE
    /\ annotations = <<>>
    /\ annotation_file = [exists |-> FALSE]
    /\ fallback_annotation = PNone
    /\ retry_count = 0
    /\ requests = 0
    /\ endpoint_error = "none"
    /\ produced_by = <<>>
    /\ io_failures = 0
    /\ callback_raised = FALSE
    /\ now = 0
    /\ ppc = "idle"
    /\ failed_in_a_row = 0
    /\ clock_end = 0
    /\ llm_lock = "free"
    /\ in_flight = {}

\* d.get(k, default)
Get(d, k, default) == IF k \in DOMAIN d THEN d[k] ELSE default

\* d.update(e)
Update(d, e) == [k \in DOMAIN d \cup DOMAIN e |-> IF k \in DOMAIN e THEN e[k] ELSE d[k]]

\* the personnel of a note when no configuration names them
BuiltinPersonnel ==
    [surgeon |-> "Not specified", assistant |-> "Not specified",
     anaesthetist |-> "Not specified"]

\* PostOpNoteAgent.__init__: the defaults of the note. `defaults` is the section of that
\* name in the agent's settings; the personnel are the built-in ones updated with those of
\* global.yaml and then with those of `defaults`
Constructed ==
    LET defaults == Get(agent_settings, "defaults", <<>>)
        global_personnel == Get(global_settings, "personnel", <<>>)
        agent_personnel == Get(defaults, "personnel", <<>>)
    IN /\ default_procedure_type =
             Get(defaults, "procedure_type", "laparoscopic cholecystectomy")
       /\ default_procedure_nature = Get(defaults, "procedure_nature", "unknown")
       /\ default_personnel =
             Update(Update(BuiltinPersonnel, global_personnel), agent_personnel)

\* an agent whose configurations set none of the defaults
NoSettings ==
    /\ agent_settings = <<>>
    /\ global_settings = <<>>
    /\ Constructed

\* no call of append_json_to_file is followed
FilesIdle ==
    /\ append_call = [pc |-> "idle"]
    /\ appended = <<>>

\* no timeline is being capped
CapIdle ==
    /\ sorted_timeline = <<>>
    /\ capped_timeline = <<>>
    /\ tpc = "idle"

\* no agent is under construction
WaitIdle ==
    /\ attempts = 0
    /\ probe = [kind |-> "none"]
    /\ waited = 0
    /\ wpc = "idle"

\* no text is being chunked
ChunkIdle ==
    /\ ids = <<>>
    /\ chunk_tokens = 256
    /\ overlap_tokens = 32
    /\ start = 0
    /\ chunks = <<>>
    /\ cpc = "idle"

SideIdle == CapIdle /\ WaitIdle /\ ChunkIdle

\* no generation is running
GenerationIdle ==
    /\ FilesIdle
    /\ NoSettings
    /\ folder_exists = FALSE
    /\ annotation_json = [exists |-> FALSE]
    /\ notetaker_json = [exists |-> FALSE]
    /\ post_op_file = [exists |-> FALSE]
    /\ llm_assist_findings = TRUE
    /\ final_json = <<>>
    /\ note_result = <<>>
    /\ refinement = [kind |-> "not run"]
    /\ note_requests = 0
    /\ save_failed = FALSE
    /\ gpc = "idle"

ComposeIdle == GenerationIdle /\ SideIdle

NormIdle ==
    /\ data = <<>>
    /\ normalized = <<>>
    /\ renormalized = <<>>
    /\ npc = "idle"

\* the fact extractor when it is not in use
ExtractIdle ==
    /\ phase_min_consecutive = 2
    /\ phase_min_dwell_seconds = 15
    /\ timeline_max_entries = 250
    /\ ann_list = <<>>
    /\ note_list = <<>>
    /\ anns = <<>>
    /\ notes = <<>>
    /\ ai = 0
    /\ run_phase = PNone
    /\ run_count = 0
    /\ run_start_ts = PNone
    /\ accepted_phase = PNone
    /\ last_accept_dt = PNone
    /\ smoothed_segments = <<>>
    /\ accept_log = <<>>
    /\ facts = <<>>
    /\ epc = "idle"

InitNormalize ==
    /\ ComposeIdle
    /\ data = <<>>
    /\ normalized = <<>>
    /\ renormalized = <<>>
    /\ npc = "raw"
    /\ ExtractIdle
    /\ ProducerIdle

\* the model output gains one more key
RawKey ==
    /\ npc = "raw"
    /\ Cardinality(DOMAIN data) < MaxKeys
    /\ \E e \in RawEntries :
          /\ e[1] \notin DOMAIN data
          /\ data' = (e[1] :> e[2]) @@ data
    /\ UNCHANGED <<normalized, renormalized, npc, extractVars, producerVars, composeVars>>

\* normalized = self._normalize_annotation_json(obj)
Normalize ==
    /\ npc = "raw"
    /\ normalized' = _normalize_annotation_json(data)
    /\ npc' = "normalized"
    /\ UNCHANGED <<data, renormalized, extractVars, producerVars, composeVars>>

\* the result handed to the normalizer once more
Renormalize ==
    /\ npc = "normalized"
    /\ renormalized' = _normalize_annotation_json(AsMapping(normalized))
    /\ npc' = "renormalized"
    /\ UNCHANGED <<data, normalized, extractVars, producerVars, composeVars>>

NextNormalize == RawKey \/ Normalize \/ Renormalize

SpecNormalize == InitNormalize /\ [][NextNormalize]_vars

-----------------------------------------------------------------------------
(* Fact extraction over recorded annotations and notes *)

\* the most annotation records of an extraction
MaxAnns == 4

Ann(phase, ts) == [surgical_phase |-> phase, timestamp |-> ts]

ClockTs(offset) == PStr(strftime(LocalTime(offset)))

\* an annotation with the tools and the anatomy the model reported for the frame
Seen(a, tools, anatomy) ==
    a @@ [tools |-> PList([i \in DOMAIN tools |-> PStr(tools[i])]),
          anatomy |-> PList([i \in DOMAIN anatomy |-> PStr(anatomy[i])])]

\* the tools reported at the three clock times and the anatomy reported in the two phases
ToolsAt == (0 :> <<"scissors">>) @@ (10 :> <<"none", "hook">>) @@ (20 :> <<"grasper">>)

AnatomyIn ==
    ("preparation" :> <<"none">>) @@ ("calots_triangle_dissection" :> <<"liver", "gallbladder">>)

\* the annotation records of the smoothing runs: two phases at three clock
\* times, a record with an unparsable timestamp and a record without a phase
SmoothAnns ==
    {Seen(Ann(PStr(p), ClockTs(k)), ToolsAt[k], AnatomyIn[p]) :
        p \in {"preparation", "calots_triangle_dissection"}, k \in {0, 10, 20}}
    \cup {Seen(Ann(PStr("preparation"), PStr("not a timestamp")), <<"clipper">>, <<"cystic_duct">>),
          Seen(Ann(PNone, ClockTs(10)), <<"bipolar">>, <<"omentum">>)}

\* the loop variables before the smoothing loop starts
SmoothReset ==
    /\ ai = 0
    /\ run_phase = PNone
    /\ run_count = 0
    /\ run_start_ts = PNone
    /\ accepted_phase = PNone
    /\ last_accept_dt = PNone
    /\ smoothed_segments = <<>>
    /\ accept_log = <<>>

InitSmooth ==
    /\ ComposeIdle
    /\ NormIdle
    /\ ProducerIdle
    /\ phase_min_consecutive \in {1, 2}
    /\ phase_min_dwell_seconds \in {0, 15}
    /\ timeline_max_entries = 250
    /\ ann_list = <<>>
    /\ note_list = <<>>
    /\ anns = <<>>
    /\ notes = <<>>
    /\ SmoothReset
    /\ facts = <<>>
    /\ epc = "load"

\* one more record in the annotation list handed to the extractor
RecordAnnotation(choices) ==
    /\ epc = "load"
    /\ Len(ann_list) < MaxAnns
    /\ \E a \in choices : ann_list' = Append(ann_list, a)
    /\ UNCHANGED <<normVars, producerVars, composeVars, configVars, note_list, smoothVars, facts, epc>>

\* _extract_facts up to the smoothing loop: both inputs sorted by timestamp
ExtractBegin ==
    /\ epc = "load"
    /\ anns' = SortedByTs(ann_list)
    /\ notes' = SortedByTs(note_list)
    /\ ai' = 1
    /\ epc' = "smooth"
    /\ UNCHANGED <<normVars, producerVars, composeVars, configVars, inputVars, run_phase, run_count, run_start_ts,
                   accepted_phase, last_accept_dt, smoothed_segments, accept_log, facts>>

\* one iteration of `for a in anns`
SmoothStep ==
    /\ epc = "smooth"
    /\ ai <= Len(anns)
    /\ ai' = ai + 1
    /\ LET a == anns[ai]
           run == RunAfter(a)
       IN IF Skipped(a)
          THEN UNCHANGED <<run_phase, run_count, run_start_ts, accepted_phase,
                           last_accept_dt, smoothed_segments, accept_log>>
          ELSE /\ run_phase' = run.phase
               /\ run_count' = run.count
               /\ run_start_ts' = run.start_ts
               /\ IF Accepts(a)
                  THEN /\ smoothed_segments' =
                            Append(smoothed_segments,
                                   [phase |-> run.phase.s, start_time |-> run.start_ts.s])
                       /\ accepted_phase' = AcceptedPhaseAfter(run)
                       /\ last_accept_dt' = AcceptTimeAfter(a, run)
                       /\ accept_log' = Append(accept_log, ai)
                  ELSE UNCHANGED <<accepted_phase, last_accept_dt, smoothed_segments,
                                   accept_log>>
    /\ UNCHANGED <<normVars, producerVars, composeVars, configVars, inputVars, anns, notes, facts, epc>>

\* _extract_facts after the smoothing loop
ExtractFinish ==
    /\ epc = "smooth"
    /\ ai > Len(anns)
    /\ facts' = Facts
    /\ epc' = "done"
    /\ UNCHANGED <<normVars, producerVars, composeVars, configVars, inputVars, smoothVars>>

NextSmooth ==
    \/ RecordAnnotation(SmoothAnns)
    \/ ExtractBegin
    \/ SmoothStep
    \/ ExtractFinish

SpecSmooth == InitSmooth /\ [][NextSmooth]_vars

-----------------------------------------------------------------------------
(* Fact extraction over regularly spaced annotation streams *)

\* the longest annotation stream
MaxStream == 7

StreamPhases == {"preparation", "calots_triangle_dissection"}

\* the stream with the given phases, one annotation every `spacing` seconds
Stream(phases, spacing) ==
    [i \in DOMAIN phases |-> Ann(PStr(phases[i]), ClockTs((i - 1) * spacing))]

\* streams at 5 s and at 10 s spacing, smoothed with the default thresholds
InitStream ==
    /\ ComposeIdle
    /\ NormIdle
    /\ ProducerIdle
    /\ phase_min_consecutive = 2
    /\ phase_min_dwell_seconds = 15
    /\ timeline_max_entries = 250
    /\ \E n \in 1..MaxStream, spacing \in {5, 10} :
          \E phases \in [1..n -> StreamPhases] : ann_list = Stream(phases, spacing)
    /\ note_list = <<>>
    /\ anns = <<>>
    /\ notes = <<>>
    /\ SmoothReset
    /\ facts = <<>>
    /\ epc = "load"

NextStream == ExtractBegin \/ SmoothStep \/ ExtractFinish

SpecStream == InitStream /\ [][NextStream]_vars

-----------------------------------------------------------------------------
(* Fact extraction with notes and a small timeline cap *)

\* the most note records of an extraction
MaxNotes == 3

Note(text, ts) == [text |-> text, timestamp |-> ts]

TimelineAnns ==
    {Ann(PStr("preparation"), ClockTs(0)), Ann(PStr("calots_triangle_dissection"), ClockTs(20))}

TimelineNotes ==
    {Note(PStr("clip applied"), ClockTs(10)), Note(PStr(" trocar in "), PStr("")),
     Note(PStr("  "), ClockTs(10))}

InitTimeline ==
    /\ ComposeIdle
    /\ NormIdle
    /\ ProducerIdle
    /\ phase_min_consecutive = 1
    /\ phase_min_dwell_seconds = 15
    /\ timeline_max_entries \in {0, 1, 2, 4}
    /\ ann_list = <<>>
    /\ note_list = <<>>
    /\ anns = <<>>
    /\ notes = <<>>
    /\ SmoothReset
    /\ facts = <<>>
    /\ epc = "load"

\* one more record in the note list handed to the extractor
RecordNote(choices) ==
    /\ epc = "load"
    /\ Len(note_list) < MaxNotes
    /\ \E n \in choices : note_list' = Append(note_list, n)
    /\ UNCHANGED <<normVars, producerVars, composeVars, configVars, ann_list, smoothVars, facts, epc>>

NextTimeline ==
    \/ RecordAnnotation(TimelineAnns)
    \/ RecordNote(TimelineNotes)
    \/ ExtractBegin
    \/ SmoothStep
    \/ ExtractFinish

SpecTimeline == InitTimeline /\ [][NextTimeline]_vars

-----------------------------------------------------------------------------
(* json.loads and re.search(r'\{.*\}', s, re.DOTALL) on a model response,   *)
(* for the JSON the responses of the model use: objects, arrays, strings    *)
(* without escapes, null, true, false and unsigned integers                 *)

PDict(d) == [py |-> "dict", d |-> d]

JsonWhitespace == {" ", "\t", "\n", "\r"}

\* the first position at or after i that holds no JSON whitespace
RECURSIVE SkipWs(_, _)
SkipWs(s, i) ==
    IF i <= Len(s) /\ Char(s, i) \in JsonWhitespace THEN SkipWs(s, i + 1) ELSE i

JsonFail == [ok |-> FALSE]

JsonOk(v, next) == [ok |-> TRUE, v |-> v, next |-> next]

\* the string whose opening quote is at position i
ParseString(s, i) ==
    LET close == IndexOf(s, "\"", i + 1)
    IN IF close = 0 THEN JsonFail
       ELSE JsonOk(PStr(SubSeq(s, i + 1, close - 1)), close + 1)

ParseLiteral(s, i, word, v) ==
    IF i + Len(word) - 1 <= Len(s) /\ SubSeq(s, i, i + Len(word) - 1) = word
    THEN JsonOk(v, i + Len(word))
    ELSE JsonFail

\* an unsigned integer: a lone 0, or digits not starting with 0
ParseNumber(s, i) ==
    IF Char(s, i) = "0" THEN JsonOk(PInt(0), i + 1)
    ELSE JsonOk(PInt(DigitsValue(SubSeq(s, i, DigitsEnd(s, i) - 1))), DigitsEnd(s, i))

RECURSIVE ParseValue(_, _), ParseMembers(_, _, _), ParseElements(_, _, _)

ParseValue(s, i) ==
    IF i > Len(s) THEN JsonFail
    ELSE LET c == Char(s, i)
             j == SkipWs(s, i + 1)
         IN CASE c = "\"" -> ParseString(s, i)
              [] c = "{" -> IF j <= Len(s) /\ Char(s, j) = "}"
                            THEN JsonOk(PDict(<<>>), j + 1)
                            ELSE ParseMembers(s, j, <<>>)
              [] c = "[" -> IF j <= Len(s) /\ Char(s, j) = "]"
                            THEN JsonOk(PList(<<>>), j + 1)
                            ELSE ParseElements(s, j, <<>>)
              [] c = "n" -> ParseLiteral(s, i, "null", PNone)
              [] c = "t" -> ParseLiteral(s, i, "true", PBool(TRUE))
              [] c = "f" -> ParseLiteral(s, i, "false", PBool(FALSE))
              [] Contains(Digits, c) -> ParseNumber(s, i)
              [] OTHER -> JsonFail

\* the members of an object from position i on; a repeated key keeps its last value
ParseMembers(s, i, acc) ==
    IF i > Len(s) \/ Char(s, i) # "\"" THEN JsonFail
    ELSE LET k == ParseString(s, i)
         IN IF ~k.ok THEN JsonFail
            ELSE LET colon == SkipWs(s, k.next)
                 IN IF colon > Len(s) \/ Char(s, colon) # ":" THEN JsonFail
                    ELSE LET v == ParseValue(s, SkipWs(s, colon + 1))
                         IN IF ~v.ok THEN JsonFail
                            ELSE LET d == (k.v.s :> v.v) @@ acc
                                     j == SkipWs(s, v.next)
                                 IN IF j > Len(s) THEN JsonFail
                                    ELSE IF Char(s, j) = "}" THEN JsonOk(PDict(d), j + 1)
                                    ELSE IF Char(s, j) = ","
                                         THEN ParseMembers(s, SkipWs(s, j + 1), d)
                                    ELSE JsonFail

\* the elements of an array from position i on
ParseElements(s, i, acc) ==
    LET v == ParseValue(s, i)
    IN IF ~v.ok THEN JsonFail
       ELSE LET l == Append(acc, v.v)
                j == SkipWs(s, v.next)
            IN IF j > Len(s) THEN JsonFail
               ELSE IF Char(s, j) = "]" THEN JsonOk(PList(l), j + 1)
               ELSE IF Char(s, j) = "," THEN ParseElements(s, SkipWs(s, j + 1), l)
               ELSE JsonFail

\* json.loads(s): one value with nothing but whitespace around it
json_loads(s) ==
    LET r == ParseValue(s, SkipWs(s, 1))
    IN IF r.ok /\ SkipWs(s, r.next) > Len(s) THEN [ok |-> TRUE, v |-> r.v] ELSE JsonFail

\* the last position of character c in s, 0 when there is none
LastIndexOf(s, c) ==
    IF \E i \in 1..Len(s) : Char(s, i) = c
    THEN CHOOSE i \in 1..Len(s) : Char(s, i) = c /\ \A j \in (i + 1)..Len(s) : Char(s, j) # c
    ELSE 0

\* re.search(r'\{.*\}', s, re.DOTALL).group(0): from the first "{" to the last "}",
\* "" when there is no match
json_match(s) ==
    LET first == IndexOf(s, "{", 1)
        last == LastIndexOf(s, "}")
    IN IF first # 0 /\ last > first THEN SubSeq(s, first, last) ELSE ""

\* the object read from a response, and the path that read it
ParseResponse(raw_json_str) ==
    LET direct == json_loads(raw_json_str)
        matched == json_match(raw_json_str)
        extracted == json_loads(matched)
    IN IF direct.ok THEN [ok |-> TRUE, obj |-> direct.v, path |-> "direct"]
       ELSE IF matched # "" /\ extracted.ok
            THEN [ok |-> TRUE, obj |-> extracted.v, path |-> "regex"]
       ELSE [ok |-> FALSE]

-----------------------------------------------------------------------------
(* AnnotationAgent._generate_annotation and the background loop *)

time_step == 10

max_consecutive_errors == 5

max_retries == 2

MinFrameLength == 1000

PauseSeconds == 30

RetrySeconds == 1

\* the latest second of the clock
MaxClock == 30

\* the most frames waiting in the queue
MaxQueue == 1

\* the most model requests followed for one frame
MaxRequests == 4

\* the most failures of the file system
MaxFailures == 1

AllKeys == ToolsKeys \o AnatomyKeys \o PhaseKeys \o DescKeys

\* whether `k in d` or `d[k]` of get_any raises for the parsed object
NormalizerRaises(obj) ==
    CASE obj.py = "dict" -> FALSE
      [] obj.py = "list" ->
            \E i \in DOMAIN AllKeys : \E j \in DOMAIN obj.items : obj.items[j] = PStr(AllKeys[i])
      [] obj.py = "str" -> \E i \in DOMAIN AllKeys : Contains(obj.s, AllKeys[i])
      [] OTHER -> TRUE

\* SurgeryAnnotation(**obj) with the normalizer left out
ParsedAnnotation_unnormalized(obj) ==
    IF /\ obj.py = "dict"
       /\ DOMAIN obj.d = {"tools", "anatomy", "surgical_phase", "description"}
       /\ obj.d.tools.py = "list" /\ obj.d.anatomy.py = "list"
       /\ \A i \in DOMAIN obj.d.tools.items : obj.d.tools.items[i].py = "str"
       /\ \A i \in DOMAIN obj.d.anatomy.items : obj.d.anatomy.items[i].py = "str"
       /\ obj.d.surgical_phase.py = "str" /\ obj.d.description.py = "str"
    THEN [ok |-> TRUE,
          parsed |-> [tools |-> [i \in DOMAIN obj.d.tools.items |-> obj.d.tools.items[i].s],
                      anatomy |-> [i \in DOMAIN obj.d.anatomy.items |-> obj.d.anatomy.items[i].s],
                      surgical_phase |-> obj.d.surgical_phase.s,
                      description |-> obj.d.description.s]]
    ELSE [ok |-> FALSE]

\* normalized = self._normalize_annotation_json(obj); parsed = SurgeryAnnotation(**normalized)
ParsedAnnotation(obj) ==
    IF NormalizerRaises(obj) THEN [ok |-> FALSE]
    ELSE [ok |-> TRUE,
          parsed |-> _normalize_annotation_json(IF obj.py = "dict" THEN obj.d ELSE <<>>)]

\* parsed.dict() with the timestamp and the elapsed time at second t
AnnotationDict(parsed, t) ==
    [tools |-> parsed.tools,
     anatomy |-> parsed.anatomy,
     surgical_phase |-> parsed.surgical_phase,
     description |-> parsed.description,
     timestamp |-> strftime(LocalTime(t)),
     elapsed_time_seconds |-> t]

FallbackAnnotation(t) ==
    [timestamp |-> strftime(LocalTime(t)),
     elapsed_time_seconds |-> t,
     tools |-> <<"none">>,
     anatomy |-> <<"none">>,
     surgical_phase |-> "preparation",
     description |-> "Unable to analyze the current frame due to a processing error."]

\* the file after json.dump(data, f) completed
JsonFile(content) == [exists |-> TRUE, decodable |-> TRUE, data |-> content]

\* the file after a write that did not complete
PartialFile == [exists |-> TRUE, decodable |-> FALSE]

\* AppendedFile that keeps a decoded value that is no list as the first element
AppendedFile_wrapping(json_object, file) ==
    IF ~file.exists THEN JsonFile(PList(<<json_object>>))
    ELSE LET loaded == IF file.decodable THEN file.data ELSE PList(<<>>)
             l == IF loaded.py = "list" THEN loaded.items ELSE <<loaded>>
         IN JsonFile(PList(Append(l, json_object)))

\* append_json_to_file when no call raises
AppendedFile(json_object, file) ==
    IF ~file.exists THEN JsonFile(PList(<<json_object>>))
    ELSE LET loaded == IF file.decodable THEN file.data ELSE PList(<<>>)
             l == IF loaded.py = "list" THEN loaded.items ELSE <<>>
         IN JsonFile(PList(Append(l, json_object)))

\* append_json_to_file: completed, or, when the file system fails, failed
\* before the file was opened for writing or after it was truncated
append_json_to_file(json_object, file, fails) ==
    IF fails THEN {file, PartialFile} ELSE {AppendedFile(json_object, file)}

Frames ==
    {[py |-> "str", len |-> MinFrameLength], [py |-> "str", len |-> MinFrameLength - 1],
     [py |-> "bytes", len |-> MinFrameLength]}

\* the truth test of the frame raises, as that of an array does
FrameRaises(f) == f.py = "ndarray"

\* not (not frame_data or not isinstance(frame_data, str) or len(frame_data) < 1000)
ValidFrame(f) == f.py = "str" /\ f.len >= MinFrameLength

\* the texts the model answers with
Responses ==
    {"",
     "{\"tools\": [\"hook\"], \"anatomy\": [\"liver\"], \"surgical_phase\": \"preparation\", \"description\": \"hook near liver\"}",
     "Here is the annotation:\n{\"tools\": [\"laser\"], \"anatomy\": [\"spleen\"], \"surgical_phase\": \"resection\", \"description\": \"cut\"}\nDone.",
     "{\"tools\": [\"hook\"]} {\"tools\": [\"clipper\"]}",
     "I cannot analyze this image.",
     "[\"tools\"]",
     "\"nothing visible\"",
     "null"}

\* what each response is read as
ReadResponses == [r \in Responses |-> ParseResponse(r)]

\* what each readable response is validated as
BuiltResponses ==
    [r \in {x \in Responses : ReadResponses[x].ok} |-> ParsedAnnotation(ReadResponses[r].obj)]

\* what _generate_annotation returns for a response, and the path taken
AnnotationFor(raw_json_str, t) ==
    LET no == [annotation |-> fallback_annotation, path |-> "fallback"]
    IN IF raw_json_str = "" THEN no
       ELSE IF ~ReadResponses[raw_json_str].ok THEN no
       ELSE IF ~BuiltResponses[raw_json_str].ok THEN no
       ELSE [annotation |-> AnnotationDict(BuiltResponses[raw_json_str].parsed, t),
             path |-> ReadResponses[raw_json_str].path]

ProducerReset ==
    /\ frame_queue = <<>>
    /\ frame_data = PNone
    /\ video_loaded = FALSE
    /\ consecutive_errors = 0
    /\ stop_event = FALSE
    /\ annotations = <<>>
    /\ fallback_annotation = PNone
    /\ retry_count = 0
    /\ requests = 0
    /\ endpoint_error = "none"
    /\ produced_by = <<>>
    /\ io_failures = 0
    /\ callback_raised = FALSE
    /\ now = 0
    /\ failed_in_a_row = 0
    /\ llm_lock = "free"
    /\ in_flight = {}

InitProducer ==
    /\ ComposeIdle
    /\ ProducerReset
    /\ annotation_file = [exists |-> FALSE]
    /\ ppc = "poll"
    /\ clock_end = MaxClock
    /\ NormIdle
    /\ ExtractIdle

\* time.sleep(seconds)
Sleep(seconds) ==
    /\ now + seconds <= clock_end
    /\ now' = now + seconds

\* another component puts a frame on the queue. The loop reads the queue only at the top
\* of an iteration, so a frame put during an iteration is taken as put when it ends.
PutFrame(choices) ==
    /\ ppc = "poll"
    /\ Len(frame_queue) < MaxQueue
    /\ \E f \in choices : frame_queue' = Append(frame_queue, f)
    /\ UNCHANGED <<normVars, extractVars, composeVars, video_loaded, consecutive_errors, stop_event,
                   callVars, outputVars, now, ppc, failed_in_a_row, clock_end, lockVars>>

\* get_nowait() raises queue.Empty
PollEmpty ==
    /\ ppc = "poll" /\ ~stop_event
    /\ frame_queue = <<>>
    /\ failed_in_a_row' = 0
    /\ Sleep(time_step)
    /\ callback_raised' = FALSE
    /\ UNCHANGED <<normVars, extractVars, composeVars, loopVars, callVars, annotations, annotation_file,
                   produced_by, io_failures, ppc, clock_end,
                   lockVars>>

\* an iteration fails with the given count of errors: the pause on the fifth, then the
\* sleep between iterations
CountError(errors) ==
    IF errors >= max_consecutive_errors
    THEN /\ consecutive_errors' = 0
         /\ failed_in_a_row' = 0
         /\ Sleep(PauseSeconds + time_step)
    ELSE /\ consecutive_errors' = errors
         /\ failed_in_a_row' = failed_in_a_row + 1
         /\ Sleep(time_step)

\* get_nowait() raises another exception
PollError ==
    /\ ppc = "poll" /\ ~stop_event
    /\ CountError(consecutive_errors + 1)
    /\ callback_raised' = FALSE
    /\ UNCHANGED <<normVars, extractVars, composeVars, frame_queue, video_loaded, stop_event,
                   callVars, annotations, annotation_file,
                   produced_by, io_failures, ppc, clock_end, lockVars>>

\* a frame is fetched and the loop body raises on it: the fetch has reset the counter
PollRaises ==
    /\ ppc = "poll" /\ ~stop_event
    /\ frame_queue # <<>>
    /\ FrameRaises(Head(frame_queue))
    /\ frame_queue' = Tail(frame_queue)
    /\ video_loaded' = TRUE
    /\ CountError(0 + 1)
    /\ callback_raised' = FALSE
    /\ UNCHANGED <<normVars, extractVars, composeVars, stop_event, callVars, annotations, annotation_file,
                   produced_by, io_failures, ppc, clock_end,
                   lockVars>>

\* a frame that fails the validity check is dropped
PollInvalid ==
    /\ ppc = "poll" /\ ~stop_event
    /\ frame_queue # <<>>
    /\ ~FrameRaises(Head(frame_queue))
    /\ ~ValidFrame(Head(frame_queue))
    /\ frame_queue' = Tail(frame_queue)
    /\ video_loaded' = TRUE
    /\ consecutive_errors' = 0
    /\ failed_in_a_row' = 0
    /\ Sleep(time_step)
    /\ callback_raised' = FALSE
    /\ UNCHANGED <<normVars, extractVars, composeVars, stop_event, callVars, annotations, annotation_file,
                   produced_by, io_failures, ppc, clock_end,
                   lockVars>>

\* a valid frame enters _generate_annotation, up to the first model request
PollValid ==
    /\ ppc = "poll" /\ ~stop_event
    /\ frame_queue # <<>>
    /\ ~FrameRaises(Head(frame_queue))
    /\ ValidFrame(Head(frame_queue))
    /\ frame_queue' = Tail(frame_queue)
    /\ video_loaded' = TRUE
    /\ consecutive_errors' = 0
    /\ failed_in_a_row' = 0
    /\ frame_data' = Head(frame_queue)
    /\ fallback_annotation' = FallbackAnnotation(now)
    /\ retry_count' = 0
    /\ requests' = 0
    /\ endpoint_error' = "none"
    /\ ppc' = "request"
    /\ callback_raised' = FALSE
    /\ UNCHANGED <<normVars, extractVars, composeVars, stop_event, annotations, annotation_file,
                   produced_by, io_failures, now, clock_end, lockVars>>

\* stream_image_response takes Agent._llm_lock and sends the request to the endpoint
SendRequest ==
    /\ ppc = "request"
    /\ retry_count <= max_retries
    /\ llm_lock = "free"
    /\ llm_lock' = "producer"
    /\ in_flight' = in_flight \cup {"producer"}
    /\ requests' = Min(requests + 1, MaxRequests)
    /\ ppc' = "in_flight"
    /\ UNCHANGED <<normVars, extractVars, composeVars, loopVars, frame_data, fallback_annotation,
                   retry_count, endpoint_error, outputVars, now, failed_in_a_row, clock_end>>

\* the exchange is over: the with block of stream_image_response is left
EndRequest ==
    /\ ppc = "in_flight"
    /\ llm_lock' = "free"
    /\ in_flight' = in_flight \ {"producer"}

\* the loop with the annotation recorded in memory only after its write succeeded
Return_unrecorded(result) ==
    /\ \E fails \in {FALSE} \cup {io_failures < MaxFailures} :
          /\ annotations' = IF fails THEN annotations ELSE Append(annotations, result.annotation)
          /\ annotation_file' \in append_json_to_file(result.annotation, annotation_file, fails)
          /\ io_failures' = io_failures + (IF fails THEN 1 ELSE 0)
    /\ produced_by' = Append(produced_by, result.path)
    /\ callback_raised' \in BOOLEAN
    /\ frame_data' = PNone
    /\ ppc' = "poll"
    /\ Sleep(time_step)

\* _generate_annotation returns; the loop records the annotation, appends it to the file,
\* calls the observer, whose exception it logs, and sleeps
Return(result) ==
    /\ annotations' = Append(annotations, result.annotation)
    /\ produced_by' = Append(produced_by, result.path)
    /\ \E fails \in {FALSE} \cup {io_failures < MaxFailures} :
          /\ annotation_file' \in append_json_to_file(result.annotation, annotation_file, fails)
          /\ io_failures' = io_failures + (IF fails THEN 1 ELSE 0)
    /\ callback_raised' \in BOOLEAN
    /\ frame_data' = PNone
    /\ ppc' = "poll"
    /\ Sleep(time_step)

\* a timeout that leaves the with block without giving up the lock
RequestRaises_holding ==
    /\ ppc = "in_flight"
    /\ in_flight' = in_flight \ {"producer"}
    /\ endpoint_error' = "timeout"
    /\ retry_count' = retry_count + 1
    /\ IF retry_count + 1 > max_retries
       THEN /\ Return([annotation |-> fallback_annotation, path |-> "fallback"])
            /\ UNCHANGED fallback_annotation
       ELSE /\ Sleep(RetrySeconds)
            /\ ppc' = "request"
            /\ UNCHANGED <<frame_data, fallback_annotation, outputVars>>
    /\ UNCHANGED <<normVars, extractVars, composeVars, loopVars, requests, failed_in_a_row, clock_end,
                   llm_lock>>

\* stream_image_response raises: the request timed out and TimeoutError reaches the
\* retry loop
RequestRaises ==
    /\ EndRequest
    /\ endpoint_error' = "timeout"
    /\ retry_count' = retry_count + 1
    /\ IF retry_count + 1 > max_retries
       THEN /\ Return([annotation |-> fallback_annotation, path |-> "fallback"])
            /\ UNCHANGED fallback_annotation
       ELSE /\ Sleep(RetrySeconds)
            /\ ppc' = "request"
            /\ UNCHANGED <<frame_data, fallback_annotation, outputVars>>
    /\ UNCHANGED <<normVars, extractVars, composeVars, loopVars, requests, failed_in_a_row, clock_end>>

\* stream_image_response returns None: the loop asks again
RequestNone ==
    /\ EndRequest
    /\ endpoint_error' = "none"
    /\ ppc' = "request"
    /\ UNCHANGED <<normVars, extractVars, composeVars, loopVars, frame_data, fallback_annotation,
                   retry_count, requests, outputVars, now, failed_in_a_row, clock_end>>

\* the request fails other than by a timeout (the connection, a rejected schema whose
\* retry without the schema fails too): stream_image_response logs it and returns "",
\* for which `if not raw_json_str` of _generate_annotation returns the fallback
RequestFails ==
    /\ EndRequest
    /\ endpoint_error' = "failure"
    /\ Return([annotation |-> fallback_annotation, path |-> "fallback"])
    /\ UNCHANGED <<normVars, extractVars, composeVars, loopVars, fallback_annotation, retry_count,
                   requests, failed_in_a_row, clock_end>>

\* stream_image_response returns a text
RequestAnswers ==
    /\ EndRequest
    /\ endpoint_error' = "none"
    /\ \E raw_json_str \in Responses : Return(AnnotationFor(raw_json_str, now))
    /\ UNCHANGED <<normVars, extractVars, composeVars, loopVars, fallback_annotation, retry_count,
                   requests, failed_in_a_row, clock_end>>

\* stop() sets the event
Stop ==
    /\ ppc \in {"poll", "request", "in_flight"}
    /\ ~stop_event
    /\ stop_event' = TRUE
    /\ UNCHANGED <<normVars, extractVars, composeVars, frame_queue, video_loaded, consecutive_errors,
                   callVars, outputVars, now, ppc, failed_in_a_row, clock_end, lockVars>>

\* the loop finds the event set
LoopExit ==
    /\ ppc = "poll"
    /\ stop_event
    /\ ppc' = "stopped"
    /\ UNCHANGED <<normVars, extractVars, composeVars, loopVars, callVars, outputVars, now,
                   failed_in_a_row, clock_end, lockVars>>

NextProducer ==
    \/ PutFrame(Frames) \/ PollEmpty \/ PollError \/ PollInvalid \/ PollValid
    \/ SendRequest \/ RequestRaises \/ RequestNone \/ RequestFails \/ RequestAnswers
    \/ Stop \/ LoopExit

SpecProducer == InitProducer /\ [][NextProducer]_vars

\* the loop thread keeps running, and the endpoint ends every exchange it is sent
FairProducer ==
    /\ WF_vars(PollEmpty \/ PollError \/ PollInvalid \/ PollValid \/ LoopExit)
    /\ WF_vars(SendRequest)
    /\ WF_vars(RequestRaises \/ RequestNone \/ RequestFails \/ RequestAnswers)

SpecProducerLive == SpecProducer /\ FairProducer

-----------------------------------------------------------------------------
(* Properties of the normalizer *)

\* a normalizer result within the annotation schema
Conforms(n) ==
    /\ Len(n.tools) > 0
    /\ \A i \in DOMAIN n.tools : n.tools[i] \in tools_enum
    /\ Len(n.anatomy) > 0
    /\ \A i \in DOMAIN n.anatomy : n.anatomy[i] \in anatomy_enum
    /\ n.surgical_phase \in phase_enum

\* C2: for every raw mapping the normalizer returns a result whose tools and
\* anatomy are non-empty lists of enum values and whose surgical_phase is one
\* of the 7 canonical phases.
NormalizeConforms ==
    npc \in {"normalized", "renormalized"} => Conforms(normalized)

\* a raw mapping with a tool outside the enum and a non-string phase was normalized
NormalizeConformsWitness ==
    /\ npc = "normalized"
    /\ DOMAIN data = {"tools", "Phase"}
    /\ data["tools"] = PList(<<PStr("laser"), PInt(12)>>)
    /\ data["Phase"] = PInt(3)
    /\ normalized.tools = <<"none">>

\* C3: normalizing a normalizer result returns that same result, in all four
\* fields.
NormalizeIdempotent ==
    npc = "renormalized" =>
        /\ renormalized.tools = normalized.tools
        /\ renormalized.anatomy = normalized.anatomy
        /\ renormalized.surgical_phase = normalized.surgical_phase
        /\ renormalized.description = normalized.description

\* an unsorted tool list with a padded description was normalized twice
NormalizeIdempotentWitness ==
    /\ npc = "renormalized"
    /\ DOMAIN data = {"Tool", "Desc"}
    /\ data["Tool"] = PList(<<PStr("scissors"), PStr("hook")>>)
    /\ data["Desc"] = PStr("  padded text\n")
    /\ normalized.tools = <<"hook", "scissors">>
    /\ normalized.description = "padded text"

-----------------------------------------------------------------------------
(* Properties of the phase smoother *)

\* the parsed timestamp of an annotation
TsOf(a) == _parse_ts(PyOr(a.timestamp, PStr("")))

\* the annotations before position i that the smoothing loop does not skip
CountedBefore(as, i) == {j \in 1..(i - 1) : ~Skipped(as[j])}

\* the length of the run of identical consecutive phase values that ends at
\* position i, over the annotations the smoothing loop does not skip
RECURSIVE RunLength(_, _)
RunLength(as, i) ==
    IF CountedBefore(as, i) = {} THEN 1
    ELSE LET j == CHOOSE j \in CountedBefore(as, i) : \A k \in CountedBefore(as, i) : k <= j
         IN IF as[j].surgical_phase = as[i].surgical_phase
            THEN 1 + RunLength(as, j)
            ELSE 1

\* segment k was accepted at position accept_log[k], for the phase found there
LogMatchesSegments ==
    /\ Len(accept_log) = Len(smoothed_segments)
    /\ \A k \in DOMAIN accept_log :
          /\ accept_log[k] \in DOMAIN anns
          /\ ~Skipped(anns[accept_log[k]])
          /\ anns[accept_log[k]].surgical_phase.s = smoothed_segments[k].phase

\* C4: a transition is accepted only at an annotation that ends a run of at
\* least phase_min_consecutive identical phase values and, but for the first
\* acceptance, lies at least phase_min_dwell_seconds after the annotation of
\* the previous acceptance; so successive acceptances are that far apart.
AcceptanceNeedsRunAndDwell ==
    /\ LogMatchesSegments
    /\ \A k \in DOMAIN accept_log :
          /\ RunLength(anns, accept_log[k]) >= phase_min_consecutive
          /\ k > 1 =>
                TotalSeconds(TsOf(anns[accept_log[k]]), TsOf(anns[accept_log[k - 1]]))
                    >= phase_min_dwell_seconds

\* a run reached the run length 10 s after an acceptance and was accepted
\* only at its next annotation, 20 s after it
AcceptanceNeedsRunAndDwellWitness ==
    /\ epc = "done"
    /\ phase_min_consecutive = 1
    /\ phase_min_dwell_seconds = 15
    /\ Len(anns) = 3
    /\ accept_log = <<1, 3>>
    /\ anns[2].surgical_phase = anns[3].surgical_phase
    /\ TotalSeconds(TsOf(anns[2]), TsOf(anns[1])) = 10
    /\ TotalSeconds(TsOf(anns[3]), TsOf(anns[1])) = 20

\* the parsed start time of a segment
StartOf(seg) == _parse_ts(PStr(seg.start_time))

\* C8: the smoothed segments are strictly increasing in start_time, for every
\* input sequence and threshold setting.
SegmentsStrictlyIncreasing ==
    \A i \in 1..(Len(smoothed_segments) - 1) :
        DtLess(StartOf(smoothed_segments[i]), StartOf(smoothed_segments[i + 1]))

\* the start times of the smoothed segments never decrease
SegmentsNonDecreasing ==
    \A i \in 1..(Len(smoothed_segments) - 1) :
        ~DtLess(StartOf(smoothed_segments[i + 1]), StartOf(smoothed_segments[i]))

\* C9: no two consecutive smoothed segments carry the same phase.
ConsecutiveSegmentsDiffer ==
    \A i \in 1..(Len(smoothed_segments) - 1) :
        smoothed_segments[i].phase # smoothed_segments[i + 1].phase

\* a phase was left and entered again: three segments, the first and the
\* third for the same phase
ConsecutiveSegmentsDifferWitness ==
    /\ epc = "done"
    /\ Len(smoothed_segments) = 3
    /\ smoothed_segments[1].phase = smoothed_segments[3].phase

-----------------------------------------------------------------------------
(* Properties of the smoother on regularly spaced streams *)

\* phase p occurs in the annotations only as single frames between other phases
OnlyIsolated(as, p) ==
    \A i \in DOMAIN as :
        as[i].surgical_phase = PStr(p) =>
            /\ i > 1 => as[i - 1].surgical_phase # PStr(p)
            /\ i < Len(as) => as[i + 1].surgical_phase # PStr(p)

\* the stream [A,A,B,A,A,A,A] at 5 s spacing
FlickerStream(A, B) == Stream(<<A, A, B, A, A, A, A>>, 5)

\* C5: with min_consecutive = 2 and min_dwell = 15 s, a phase seen only as
\* isolated single frames gets no segment, an annotation of the phase of the
\* latest segment adds no segment, and [A,A,B,A,A,A,A] at 5 s spacing ends
\* with exactly one segment, for A.
IsolatedFramesNeverAccepted ==
    /\ epc \in {"smooth", "done"} =>
          \A p \in StreamPhases :
              OnlyIsolated(anns, p) =>
                  \A k \in DOMAIN smoothed_segments : smoothed_segments[k].phase # p
    /\ LogMatchesSegments
    /\ \A k \in 2..Len(accept_log) :
          anns[accept_log[k]].surgical_phase.s # smoothed_segments[k - 1].phase
    /\ \A A \in StreamPhases : \A B \in StreamPhases \ {A} :
          (epc = "done" /\ ann_list = FlickerStream(A, B)) =>
              smoothed_segments = <<[phase |-> A, start_time |-> ClockTs(0).s]>>

\* the stream [A,A,B,A,A,A,A] was smoothed to the end
IsolatedFramesNeverAcceptedWitness ==
    /\ epc = "done"
    /\ ann_list = FlickerStream("preparation", "calots_triangle_dissection")
    /\ ai = 8
    /\ Len(smoothed_segments) = 1

\* [preparation x3, calots_triangle_dissection x4] at 10 s spacing
TwoPhaseStream ==
    Stream(<<"preparation", "preparation", "preparation",
             "calots_triangle_dissection", "calots_triangle_dissection",
             "calots_triangle_dissection", "calots_triangle_dissection">>, 10)

\* the positions of the segments, or of the timeline events, for a phase
SegmentsOf(p) == {k \in DOMAIN smoothed_segments : smoothed_segments[k].phase = p}

PhaseEventsOf(p) ==
    {k \in DOMAIN facts.timeline : facts.timeline[k].event = "Phase started: " \o p}

\* C6: [preparation x3, calots_triangle_dissection x4] at 10 s spacing with the
\* default thresholds gives exactly one segment for calots_triangle_dissection,
\* after one for preparation.
TwoPhaseStreamOneTransition ==
    (epc = "done" /\ ann_list = TwoPhaseStream) =>
        /\ Len(smoothed_segments) = 2
        /\ SegmentsOf("preparation") = {1}
        /\ SegmentsOf("calots_triangle_dissection") = {2}
        /\ Cardinality(PhaseEventsOf("calots_triangle_dissection")) = 1

\* the two-phase stream was smoothed to the end
TwoPhaseStreamOneTransitionWitness ==
    /\ epc = "done"
    /\ ann_list = TwoPhaseStream
    /\ ai = 8
    /\ facts.phases_ordered = <<"preparation", "calots_triangle_dissection">>

\* C7: on the two-phase stream the transition to calots_triangle_dissection
\* is reported at the timestamp of the third occurrence of that phase.
TransitionAtThirdOccurrence ==
    (epc = "done" /\ ann_list = TwoPhaseStream) =>
        /\ \A k \in SegmentsOf("calots_triangle_dissection") :
              smoothed_segments[k].start_time = ClockTs(50).s
        /\ \A k \in PhaseEventsOf("calots_triangle_dissection") :
              facts.timeline[k].time = ClockTs(50).s

\* C7, amended: on the two-phase stream the transition is accepted at the
\* second occurrence of calots_triangle_dissection (run length 2, 30 s after
\* the previous acceptance), and the segment and its phase event carry the
\* timestamp of the first occurrence, the start of the run.
TransitionAtSecondOccurrence ==
    (epc = "done" /\ ann_list = TwoPhaseStream) =>
        /\ accept_log = <<2, 5>>
        /\ last_accept_dt = TsOf(anns[5])
        /\ smoothed_segments[2] =
              [phase |-> "calots_triangle_dissection", start_time |-> anns[4].timestamp.s]
        /\ facts.timeline[2] =
              [time |-> anns[4].timestamp.s,
               event |-> "Phase started: calots_triangle_dissection"]

\* the two-phase stream was smoothed and its second segment starts 30 s in
TransitionAtSecondOccurrenceWitness ==
    /\ epc = "done"
    /\ ann_list = TwoPhaseStream
    /\ Len(smoothed_segments) = 2
    /\ smoothed_segments[2].start_time = ClockTs(30).s

-----------------------------------------------------------------------------
(* Properties of the timeline *)

\* C10: whenever the merged timeline has more entries than the cap, the
\* returned timeline has exactly cap entries, the marker included.
CappedTimelineHasCapEntries ==
    (/\ epc = "done"
     /\ timeline_max_entries # 0
     /\ Len(MergedTimeline(smoothed_segments, notes)) > timeline_max_entries) =>
        Len(facts.timeline) = timeline_max_entries

\* a capped timeline holds cap original events and the marker
CappedTimelineHasCapPlusOne ==
    (/\ epc = "done"
     /\ timeline_max_entries # 0
     /\ Len(MergedTimeline(smoothed_segments, notes)) > timeline_max_entries) =>
        Len(facts.timeline) = timeline_max_entries + 1

-----------------------------------------------------------------------------
(* Properties of the annotation producer *)

\* the records of the annotation file, none when it is absent or unreadable
FileRecords ==
    IF annotation_file.exists /\ annotation_file.decodable /\ annotation_file.data.py = "list"
    THEN annotation_file.data.items
    ELSE <<>>

\* C1: in every state of the producer, every record of its in-memory list and
\* of the annotation file has non-empty tools and anatomy lists of enum values
\* and a canonical surgical_phase, whether it came from a directly parsed
\* response, a regex-extracted response or the fallback.
ProducedRecordsConform ==
    /\ \A i \in DOMAIN annotations : Conforms(annotations[i])
    /\ \A i \in DOMAIN FileRecords : Conforms(FileRecords[i])

\* records of all three paths were produced and written
ProducedRecordsConformWitness ==
    /\ \A path \in {"direct", "regex", "fallback"} :
          \E i \in DOMAIN produced_by : produced_by[i] = path
    /\ FileRecords = annotations
    /\ \E i \in DOMAIN annotations : annotations[i].description = "cut"

\* the event text has the shape of the synthetic marker
IsOmittedMarker(e) ==
    /\ Len(e.event) >= 23
    /\ SubSeq(e.event, 1, 4) = "... "
    /\ SubSeq(e.event, Len(e.event) - 18, Len(e.event)) = " events omitted ..."

\* C11: for a positive cap, a capped timeline is a prefix of the merged
\* timeline in its order, then one "events omitted" marker, then a suffix of
\* the merged timeline in its order; prefix and suffix do not overlap, and the
\* marker occurs at no other position.
CappedTimelineStructure ==
    (/\ epc = "done"
     /\ timeline_max_entries # 0
     /\ Len(MergedTimeline(smoothed_segments, notes)) > timeline_max_entries) =>
        LET merged == MergedTimeline(smoothed_segments, notes)
            t == facts.timeline
        IN /\ \E h \in 0..Len(merged) : \E k \in 0..(Len(merged) - h) :
                 /\ Len(t) = h + 1 + k
                 /\ SubSeq(t, 1, h) = SubSeq(merged, 1, h)
                 /\ IsOmittedMarker(t[h + 1])
                 /\ SubSeq(t, h + 2, Len(t)) = SubSeq(merged, Len(merged) - k + 1, Len(merged))
           /\ Cardinality({i \in DOMAIN t : IsOmittedMarker(t[i])}) = 1

\* five events capped at four: one head event, the marker, the last three
CappedTimelineStructureWitness ==
    /\ epc = "done"
    /\ timeline_max_entries = 4
    /\ Len(MergedTimeline(smoothed_segments, notes)) = 5
    /\ IsOmittedMarker(facts.timeline[2])
    /\ facts.timeline[1].event = "Phase started: preparation"
    /\ facts.timeline[5].event = "Phase started: calots_triangle_dissection"

-----------------------------------------------------------------------------
(* PostOpNoteAgent: generate_post_op_note. The note carries the fields that  *)
(* come from the facts modelled above and two of the fixed ones.             *)

\* _load_json_array: the list in the file, [] for a file that is missing, undecodable,
\* not a list or empty, and for a notes file without a note whose text is more than a
\* placeholder; any() raises on a text that is no string before it finds such a note
_load_json_array(file, is_notes) ==
    IF ~file.exists \/ ~file.decodable THEN <<>>
    ELSE IF file.data.py # "list" THEN <<>>
    ELSE LET items == file.data.items
             text(i) == IF "text" \in DOMAIN items[i] THEN items[i].text ELSE PStr("")
             verdict(i) ==
                IF text(i).py # "str" THEN "raises"
                ELSE IF /\ Strip(text(i).s) # ""
                        /\ Strip(Lower(text(i).s)) \notin {"", "take a note"}
                     THEN "valid"
                     ELSE "placeholder"
             decided == {i \in DOMAIN items : verdict(i) # "placeholder"}
         IN IF ~is_notes THEN items
            ELSE IF decided = {} THEN <<>>
            ELSE IF verdict(CHOOSE i \in decided : \A j \in decided : i <= j) = "valid"
                 THEN items
                 ELSE <<>>

\* the personnel of a note
NotePersonnel ==
    [surgeon |-> Get(default_personnel, "surgeon", "Not specified"),
     assistant |-> Get(default_personnel, "assistant", "Not specified"),
     anaesthetist |-> Get(default_personnel, "anaesthetist", "Not specified")]

\* DefaultSkeleton with the findings of a note without facts
DefaultSkeleton_unspecified ==
    [date_time |-> PStr("Not specified"),
     procedure_type |-> default_procedure_type,
     procedure_nature |-> default_procedure_nature,
     personnel |-> NotePersonnel,
     findings |-> "Findings: Not specified.",
     blood_loss_estimate |-> PStr("Not specified"),
     postoperative_instructions |-> "Not specified",
     timeline |-> <<>>]

\* the note returned when both lists are empty
DefaultSkeleton ==
    [date_time |-> PStr("Not specified"),
     procedure_type |-> default_procedure_type,
     procedure_nature |-> default_procedure_nature,
     personnel |-> NotePersonnel,
     findings |-> "No findings recorded",
     blood_loss_estimate |-> PStr("Not specified"),
     postoperative_instructions |-> "Not specified",
     timeline |-> <<>>]

\* sep.join(l)
RECURSIVE Join(_, _)
Join(sep, l) ==
    IF l = <<>> THEN ""
    ELSE IF Len(l) = 1 THEN l[1]
    ELSE l[1] \o sep \o Join(sep, Tail(l))

_format_duration(seconds) ==
    IF seconds = PNone THEN "Not specified"
    ELSE LET n == Max(0, seconds.n)
         IN Pad2(n \div 3600) \o ":" \o Pad2((n % 3600) \div 60) \o ":" \o Pad2(n % 60)

\* _build_final_json_from_facts
_build_final_json_from_facts(f) ==
    LET dur_str == _format_duration(f.duration_seconds)
        findings_parts ==
            (IF f.phases_ordered # <<>>
             THEN <<"Phases observed: " \o Join(", ", f.phases_ordered) \o ".">> ELSE <<>>)
            \o (IF f.tools # <<>>
                THEN <<"Tools seen: " \o Join(", ", f.tools) \o ".">> ELSE <<>>)
            \o (IF f.anatomy # <<>>
                THEN <<"Anatomy involved: " \o Join(", ", f.anatomy) \o ".">> ELSE <<>>)
            \o (IF dur_str # "Not specified"
                THEN <<"Approximate procedure duration: " \o dur_str \o ".">> ELSE <<>>)
    IN [date_time |-> PyOr(f.start_time, PStr("Not specified")),
        procedure_type |-> default_procedure_type,
        procedure_nature |-> default_procedure_nature,
        personnel |-> NotePersonnel,
        findings |-> Join(" ", IF findings_parts = <<>> THEN <<"Findings: Not specified.">>
                                ELSE findings_parts),
        blood_loss_estimate |-> PyOr(f.blood_loss_estimate, PStr("Not specified")),
        postoperative_instructions |-> "Not specified",
        timeline |->
            [i \in DOMAIN f.timeline |->
                [time |-> IF f.timeline[i].time = "" THEN "Not specified"
                          ELSE f.timeline[i].time,
                 event |-> SliceHead(f.timeline[i].event, 500)]]]

\* _extract_facts raises on an annotation whose tools or anatomy cannot be iterated
ExtractRaises(as) ==
    \E i \in DOMAIN as : \E key \in {"tools", "anatomy"} :
        key \in DOMAIN as[i] /\ Truthy(as[i][key]) /\ as[i][key].py = "int"

\* RefinedFindings writing a placeholder over the findings when the answer is empty
RefinedFindings_placeholder(content, findings) ==
    LET text == PyOr(content, PStr(""))
    IN IF text.py = "str" /\ Strip(text.s) # "" THEN Strip(text.s) ELSE "Not specified"

\* (result.choices[0].message.content or "").strip(), written over the findings
\* when it is not empty; strip() raises on a content that is no string, and the
\* generation logs the exception
RefinedFindings(content, findings) ==
    LET text == PyOr(content, PStr(""))
    IN IF text.py = "str" /\ Strip(text.s) # "" THEN Strip(text.s) ELSE findings

\* the annotation files of the generations: missing, cut short, not a list, empty, two
\* records of the producer, a record without a usable timestamp, a record whose tools
\* are a number
ComposeAnnotations ==
    {[exists |-> FALSE], PartialFile, JsonFile(PDict(<<>>)), JsonFile(PList(<<>>)),
     JsonFile(PList(<<
        [surgical_phase |-> PStr("preparation"), timestamp |-> ClockTs(0),
         elapsed_time_seconds |-> PInt(0), tools |-> PList(<<PStr("hook")>>),
         anatomy |-> PList(<<PStr("none")>>)],
        [surgical_phase |-> PStr("calots_triangle_dissection"), timestamp |-> ClockTs(20),
         elapsed_time_seconds |-> PInt(20), tools |-> PList(<<PStr("none")>>),
         anatomy |-> PList(<<PStr("liver"), PStr("gallbladder")>>)]>>)),
     JsonFile(PList(<<Ann(PStr("preparation"), PStr(""))>>)),
     JsonFile(PList(<<[surgical_phase |-> PStr("preparation"), timestamp |-> ClockTs(0),
                       tools |-> PInt(5)]>>))}

\* notes on the blood loss, in the order of the file: the later note first, a note
\* without a unit ahead of one with a unit, the example of the specification after a
\* note without the pattern, and a keyword that runs into its number
BloodLossNotes ==
    {<<Note(PStr("EBL: 250 ml"), ClockTs(20)), Note(PStr("Estimated blood loss=50cc."), ClockTs(10))>>,
     <<Note(PStr("ebl 300"), ClockTs(0)), Note(PStr("EBL: 250 ml"), ClockTs(10))>>,
     <<Note(PStr("clip applied"), ClockTs(0)), Note(PStr(" EBL: 250 ml "), ClockTs(10))>>,
     <<Note(PStr("EBL250ml"), ClockTs(10))>>}

\* the notes files: missing, cut short, empty, a placeholder, a note, a text that is
\* no string ahead of a note
ComposeNotes ==
    {[exists |-> FALSE], PartialFile, JsonFile(PList(<<>>)),
     JsonFile(PList(<<Note(PStr("Take a note "), ClockTs(10))>>)),
     JsonFile(PList(<<Note(PStr("clip applied"), ClockTs(10))>>)),
     JsonFile(PList(<<Note(PNone, ClockTs(0)), Note(PStr("clip applied"), ClockTs(10))>>))}
    \cup {JsonFile(PList(l)) : l \in BloodLossNotes}

\* the refinement returning a note of its own around the findings
Refined_rebuilt(note, content) ==
    [DefaultSkeleton EXCEPT !.findings = RefinedFindings(content, note.findings)]

\* final_json["findings"] = refined, when the answer is not empty
Refined(note, content) ==
    [note EXCEPT !.findings = RefinedFindings(content, note.findings)]

\* the answers to the refinement request
RefineContents ==
    {PNone, PStr(""), PStr(" \n"), PList(<<PStr("Dissection.")>>),
     PStr(" Dissection of the triangle. ")}

\* the agent's settings: no defaults section, a procedure type, a surgeon, a procedure
\* nature with an assistant
AgentSettings ==
    {<<>>,
     [defaults |-> [procedure_type |-> "open appendectomy"]],
     [defaults |-> [personnel |-> [surgeon |-> "Dr. Adams"]]],
     [defaults |-> [procedure_nature |-> "elective",
                    personnel |-> [assistant |-> "Dr. Cole"]]]}

\* the note an earlier generation left in the folder
EarlierNote == [DefaultSkeleton EXCEPT !.findings = "Adhesions at the gallbladder fossa."]

\* global.yaml: missing, personnel, a procedure type and nature
GlobalSettings ==
    {<<>>,
     [personnel |-> [surgeon |-> "Dr. Grant", anaesthetist |-> "Dr. Nash"]],
     [procedure_type |-> "hernia repair", procedure_nature |-> "emergency"]}

InitCompose ==
    /\ SideIdle
    /\ NormIdle
    /\ FilesIdle
    /\ ProducerIdle
    /\ NoSettings
    /\ folder_exists \in BOOLEAN
    /\ annotation_json \in IF folder_exists THEN ComposeAnnotations ELSE {[exists |-> FALSE]}
    /\ notetaker_json \in IF folder_exists THEN ComposeNotes ELSE {[exists |-> FALSE]}
    /\ post_op_file \in IF folder_exists THEN {[exists |-> FALSE], JsonFile(EarlierNote)}
                        ELSE {[exists |-> FALSE]}
    /\ llm_assist_findings \in BOOLEAN
    /\ final_json = <<>>
    /\ note_result = <<>>
    /\ refinement = [kind |-> "not run"]
    /\ note_requests = 0
    /\ save_failed = FALSE
    /\ gpc = "load"
    /\ phase_min_consecutive = 1
    /\ phase_min_dwell_seconds = 15
    /\ timeline_max_entries = 250
    /\ ann_list = <<>>
    /\ note_list = <<>>
    /\ anns = <<>>
    /\ notes = <<>>
    /\ SmoothReset
    /\ facts = <<>>
    /\ epc = "idle"

\* LoadInputs saving the skeleton it returns
LoadInputs_saving ==
    /\ gpc = "load"
    /\ IF ~folder_exists
       THEN /\ note_result' = PNone
            /\ gpc' = "done"
            /\ UNCHANGED <<inputVars, epc, post_op_file>>
       ELSE /\ ann_list' = _load_json_array(annotation_json, FALSE)
            /\ note_list' = _load_json_array(notetaker_json, TRUE)
            /\ IF ann_list' = <<>> /\ note_list' = <<>>
               THEN note_result' = DefaultSkeleton /\ gpc' = "done" /\ UNCHANGED epc
                    /\ post_op_file' = JsonFile(DefaultSkeleton)
               ELSE note_result' = note_result /\ gpc' = "extract" /\ epc' = "load"
                    /\ UNCHANGED post_op_file
    /\ UNCHANGED <<fileVars, settingsVars, sideVars, normVars, producerVars, configVars, smoothVars, facts, folder_exists,
                   annotation_json, notetaker_json, llm_assist_findings, final_json, refinement,
                   note_requests, save_failed>>

\* the folder check and the two loads: None without the folder, the skeleton when both
\* lists are empty, else on to _extract_facts
LoadInputs ==
    /\ gpc = "load"
    /\ IF ~folder_exists
       THEN /\ note_result' = PNone
            /\ gpc' = "done"
            /\ UNCHANGED <<inputVars, epc>>
       ELSE /\ ann_list' = _load_json_array(annotation_json, FALSE)
            /\ note_list' = _load_json_array(notetaker_json, TRUE)
            /\ IF ann_list' = <<>> /\ note_list' = <<>>
               THEN note_result' = DefaultSkeleton /\ gpc' = "done" /\ UNCHANGED epc
               ELSE note_result' = note_result /\ gpc' = "extract" /\ epc' = "load"
    /\ UNCHANGED <<fileVars, settingsVars, sideVars, normVars, producerVars, configVars, smoothVars, facts, folder_exists,
                   annotation_json, notetaker_json, post_op_file, llm_assist_findings, final_json, refinement,
                   note_requests, save_failed>>

\* _extract_facts has ended: the note is built from the facts, or the exception of the
\* extraction reaches the handler of generate_post_op_note
BuildBaseline ==
    /\ gpc = "extract"
    /\ epc = "done"
    /\ IF ExtractRaises(anns)
       THEN /\ note_result' = PNone
            /\ gpc' = "done"
            /\ UNCHANGED final_json
       ELSE /\ final_json' = _build_final_json_from_facts(facts)
            /\ gpc' = IF llm_assist_findings THEN "refine" ELSE "persist"
            /\ UNCHANGED note_result
    /\ UNCHANGED <<fileVars, settingsVars, sideVars, normVars, extractVars, producerVars, folder_exists, annotation_json, notetaker_json,
                   post_op_file, llm_assist_findings, refinement, note_requests, save_failed>>

\* _refine_findings_with_llm sends its request: client.chat.completions.create is
\* called as it is, outside Agent._llm_lock
RefineRequest ==
    /\ gpc = "refine"
    /\ in_flight' = in_flight \cup {"composer"}
    /\ note_requests' = note_requests + 1
    /\ gpc' = "refining"
    /\ UNCHANGED <<fileVars, settingsVars, sideVars, normVars, extractVars, loopVars, callVars, outputVars, now, ppc,
                   failed_in_a_row, clock_end, llm_lock, folder_exists, annotation_json, notetaker_json,
                   post_op_file, llm_assist_findings, final_json, note_result, refinement,
                   save_failed>>

\* the request raises (an error, a timeout, an answer without choices) or answers
RefineResponse ==
    /\ gpc = "refining"
    /\ in_flight' = in_flight \ {"composer"}
    /\ \/ /\ refinement' = [kind |-> "raised"]
          /\ UNCHANGED final_json
       \/ \E content \in RefineContents :
             /\ refinement' = [kind |-> "answered", content |-> content]
             /\ final_json' = Refined(final_json, content)
    /\ gpc' = "persist"
    /\ UNCHANGED <<fileVars, settingsVars, sideVars, normVars, extractVars, loopVars, callVars, outputVars, now, ppc,
                   failed_in_a_row, clock_end, llm_lock, folder_exists, annotation_json, notetaker_json,
                   post_op_file, llm_assist_findings, note_result, note_requests, save_failed>>

\* _save_post_op_note writes the note, or logs the exception of the write; the note
\* is returned
Persist ==
    /\ gpc = "persist"
    /\ \E fails \in BOOLEAN :
          /\ post_op_file' \in IF fails THEN {post_op_file, PartialFile}
                               ELSE {JsonFile(final_json)}
          /\ save_failed' = fails
    /\ note_result' = final_json
    /\ gpc' = "done"
    /\ UNCHANGED <<fileVars, settingsVars, sideVars, normVars, extractVars, producerVars, folder_exists, annotation_json, notetaker_json,
                   llm_assist_findings, final_json, refinement, note_requests>>

NextCompose ==
    \/ LoadInputs \/ ExtractBegin \/ SmoothStep \/ ExtractFinish \/ BuildBaseline
    \/ RefineRequest \/ RefineResponse \/ Persist

SpecCompose == InitCompose /\ [][NextCompose]_vars

\* generations by agents constructed from each pair of configurations, over a folder
\* with the annotations of a procedure or none, and a note or none
InitConfigured ==
    /\ SideIdle
    /\ NormIdle
    /\ FilesIdle
    /\ ProducerIdle
    /\ agent_settings \in AgentSettings
    /\ global_settings \in GlobalSettings
    /\ Constructed
    /\ folder_exists = TRUE
    /\ annotation_json \in
          {[exists |-> FALSE],
           JsonFile(PList(<<Ann(PStr("preparation"), ClockTs(0)),
                            Ann(PStr("preparation"), ClockTs(20))>>))}
    /\ notetaker_json \in
          {[exists |-> FALSE], JsonFile(PList(<<Note(PStr("clip applied"), ClockTs(10))>>))}
    /\ post_op_file = [exists |-> FALSE]
    /\ llm_assist_findings \in BOOLEAN
    /\ final_json = <<>>
    /\ note_result = <<>>
    /\ refinement = [kind |-> "not run"]
    /\ note_requests = 0
    /\ save_failed = FALSE
    /\ gpc = "load"
    /\ phase_min_consecutive = 2
    /\ phase_min_dwell_seconds = 15
    /\ timeline_max_entries = 250
    /\ ann_list = <<>>
    /\ note_list = <<>>
    /\ anns = <<>>
    /\ notes = <<>>
    /\ SmoothReset
    /\ facts = <<>>
    /\ epc = "idle"

SpecConfigured == InitConfigured /\ [][NextCompose]_vars

-----------------------------------------------------------------------------
(* The model endpoint shared by the producer, a chat agent and a generation *)

\* a chat agent enters stream_response: the request is sent under Agent._llm_lock
StreamRequest ==
    /\ "chat" \notin in_flight
    /\ llm_lock = "free"
    /\ llm_lock' = "chat"
    /\ in_flight' = in_flight \cup {"chat"}
    /\ UNCHANGED <<normVars, extractVars, composeVars, loopVars, callVars, outputVars, now,
                   ppc, failed_in_a_row, clock_end>>

\* stream_response returns the text, or "" after a failed request: the lock is released
StreamResponse ==
    /\ "chat" \in in_flight
    /\ llm_lock' = "free"
    /\ in_flight' = in_flight \ {"chat"}
    /\ UNCHANGED <<normVars, extractVars, composeVars, loopVars, callVars, outputVars, now,
                   ppc, failed_in_a_row, clock_end>>

\* the producer on its first iterations, a generation over the folder of an earlier
\* procedure, and a chat agent, in one process
InitLock ==
    /\ SideIdle
    /\ NormIdle
    /\ NoSettings
    /\ FilesIdle
    /\ ProducerReset
    /\ annotation_file = [exists |-> FALSE]
    /\ ppc = "poll"
    /\ clock_end = time_step
    /\ folder_exists = TRUE
    /\ annotation_json = JsonFile(PList(<<Ann(PStr("preparation"), ClockTs(0))>>))
    /\ notetaker_json = JsonFile(PList(<<Note(PStr("clip applied"), ClockTs(10))>>))
    /\ post_op_file = [exists |-> FALSE]
    /\ llm_assist_findings = TRUE
    /\ final_json = <<>>
    /\ note_result = <<>>
    /\ refinement = [kind |-> "not run"]
    /\ note_requests = 0
    /\ save_failed = FALSE
    /\ gpc = "load"
    /\ phase_min_consecutive = 2
    /\ phase_min_dwell_seconds = 15
    /\ timeline_max_entries = 250
    /\ ann_list = <<>>
    /\ note_list = <<>>
    /\ anns = <<>>
    /\ notes = <<>>
    /\ SmoothReset
    /\ facts = <<>>
    /\ epc = "idle"

NextLock == NextProducer \/ NextCompose \/ StreamRequest \/ StreamResponse

SpecLock == InitLock /\ [][NextLock]_vars

-----------------------------------------------------------------------------
(* AnnotationAgent: the loop on iterations that annotate nothing *)

MaxErrorClock == 80

\* frames the loop does not annotate: an array, bytes, a short string
ErrorFrames ==
    {[py |-> "ndarray", len |-> MinFrameLength], [py |-> "bytes", len |-> MinFrameLength],
     [py |-> "str", len |-> MinFrameLength - 1]}

InitErrors ==
    /\ ComposeIdle
    /\ ProducerReset
    /\ annotation_file = [exists |-> FALSE]
    /\ ppc = "poll"
    /\ clock_end = MaxErrorClock
    /\ NormIdle
    /\ ExtractIdle

NextErrors ==
    \/ PutFrame(ErrorFrames) \/ PollEmpty \/ PollError \/ PollRaises \/ PollInvalid
    \/ Stop \/ LoopExit

SpecErrors == InitErrors /\ [][NextErrors]_vars

-----------------------------------------------------------------------------
(* AnnotationAgent: the annotation cycle of a valid frame *)

\* the clock leaves room for the retry waits and the sleep that ends the cycle
RoomForCycle == now + max_retries * RetrySeconds + time_step <= clock_end

\* C12: every poll that yields a valid frame completes its cycle, and the cycle appends
\* exactly one record: nothing is appended before the cycle ends, one record when it ends,
\* whatever the endpoint does on each request
ValidFrameAppendsOneRecord ==
    /\ [][/\ (ppc \in {"request", "in_flight"} /\ ppc' = "poll") =>
                Len(annotations') = Len(annotations) + 1
          /\ (ppc' # "poll" \/ ppc = "poll") => annotations' = annotations]_vars
    /\ (ppc = "request" /\ requests = 0 /\ RoomForCycle) ~> (ppc = "poll")

\* C13: at most three model requests (one attempt and two retries) are made for a valid
\* frame, whatever the endpoint does on each of them
AtMostThreeRequestsPerFrame == requests <= max_retries + 1

\* C15: five consecutive failed iterations (queue access errors or exceptions of the loop
\* body) do not pass without the 30 second pause that resets the counter
PauseAfterFiveFailures == failed_in_a_row < max_consecutive_errors

\* C16: once the stop event is set the loop starts no new iteration, and it ends the
\* iteration in progress, the exchange with the endpoint included, and then exits, which is
\* when the join in stop() returns
StopEndsTheLoop ==
    /\ [][(stop_event /\ ppc = "poll") =>
              /\ ppc' \in {"poll", "stopped"}
              /\ <<now, annotations, annotation_file, requests>>' =
                     <<now, annotations, annotation_file, requests>>]_vars
    /\ (stop_event /\ RoomForCycle) ~> (ppc = "stopped")

-----------------------------------------------------------------------------
(* PostOpNoteAgent: the outcomes of a generation *)

\* both loads of the generation give the empty list
BothLoadsEmpty ==
    /\ folder_exists
    /\ _load_json_array(annotation_json, FALSE) = <<>>
    /\ _load_json_array(notetaker_json, TRUE) = <<>>

\* C17: when the annotation input and the notes input both load as empty, the generation
\* returns the default skeleton, with findings "No findings recorded" and an empty
\* timeline, and neither fact extraction nor a model request is run on the way
EmptyInputsGiveSkeleton ==
    BothLoadsEmpty =>
        /\ epc = "idle" /\ facts = <<>>
        /\ note_requests = 0 /\ in_flight = {}
        /\ gpc \in {"load", "done"}
        /\ gpc = "done" =>
              /\ note_result = DefaultSkeleton
              /\ note_result.findings = "No findings recorded"
              /\ note_result.timeline = <<>>

\* an annotation file that is no list and a notes file cut short
EmptyInputsGiveSkeletonWitness ==
    /\ gpc = "done"
    /\ annotation_json = JsonFile(PDict(<<>>))
    /\ notetaker_json = PartialFile
    /\ note_result.findings = "No findings recorded"

\* the refinement request raised, or answered without a text
RefinementFailed ==
    \/ refinement.kind = "raised"
    \/ /\ refinement.kind = "answered"
       /\ \/ refinement.content.py \notin {"str", "NoneType"}
          \/ refinement.content.py = "NoneType"
          \/ refinement.content.py = "str" /\ Strip(refinement.content.s) = ""

\* C18: when the refinement of the findings fails (the request raises or times out, the
\* answer has no choices, no content, an empty text or a content that is no text), the
\* findings of the note are the baseline findings built from the facts
FailedRefinementKeepsBaseline ==
    (gpc \in {"persist", "done"} /\ RefinementFailed) =>
        /\ final_json.findings = _build_final_json_from_facts(facts).findings
        /\ gpc = "done" => note_result.findings = _build_final_json_from_facts(facts).findings

\* a blank answer for the two records of the producer
FailedRefinementKeepsBaselineWitness ==
    /\ gpc = "done"
    /\ refinement = [kind |-> "answered", content |-> PStr(" \n")]
    /\ note_result.findings =
          "Phases observed: preparation, calots_triangle_dissection. Tools seen: hook. "
          \o "Anatomy involved: gallbladder, liver. Approximate procedure duration: 00:00:20."

\* C19: a failure of the refinement is absorbed, and a failure in another stage, the write
\* of the note included, fails the generation: the caller receives None
OnlyRefinementFailureIsAbsorbed ==
    gpc = "done" =>
        /\ (refinement.kind = "raised" /\ ~save_failed) => note_result = final_json
        /\ (epc = "done" /\ ExtractRaises(anns)) => note_result = PNone
        /\ save_failed => note_result = PNone

-----------------------------------------------------------------------------
(* The model endpoint *)

\* C14: no two model requests are in flight at the same time: the producer's vision
\* request, the refinement request of a generation and the requests of the chat agents
\* exclude each other
OneRequestInFlight == Cardinality(in_flight) <= 1

-----------------------------------------------------------------------------
(* The annotation file *)

\* C20: the annotation file is append-only: a step of the producer leaves its array as it
\* was or adds the new record at its end, so a record once written keeps its position
\* and its content and is never deleted
AnnotationFileIsAppendOnly ==
    [][\/ FileRecords' = FileRecords
       \/ FileRecords' = Append(FileRecords, annotations'[Len(annotations')])]_vars

-----------------------------------------------------------------------------
(* The files of a procedure folder between a writer that appends through    *)
(* Agent.append_json_to_file and one generation that loads them. The call   *)
(* is followed step by step: the file is read and opened for writing, which *)
(* truncates it, and then the list is dumped into it.                       *)

\* the most appends to one file
MaxAppends == 2

\* the file with the given text, as json.load decodes it
FileOfText(text) ==
    LET r == json_loads(text)
    IN IF r.ok THEN JsonFile(r.v) ELSE PartialFile

\* texts found in a file: nothing, a list cut short, an object, a string, a number,
\* null, the empty list
FileTexts ==
    {"", "[{\"text\": \"clip app", "{\"text\": \"clip applied\"}", "\"clip applied\"",
     "7", "null", "[]"}

\* the files a folder starts with
StartFiles == {[exists |-> FALSE]} \cup {FileOfText(t) : t \in FileTexts}

\* the annotation records appended
AppendAnnotations ==
    {[surgical_phase |-> PStr("preparation"), timestamp |-> ClockTs(0),
      elapsed_time_seconds |-> PInt(0), tools |-> PList(<<PStr("hook")>>),
      anatomy |-> PList(<<PStr("none")>>)],
     [surgical_phase |-> PStr("calots_triangle_dissection"), timestamp |-> ClockTs(20),
      elapsed_time_seconds |-> PInt(20), tools |-> PList(<<PStr("none")>>),
      anatomy |-> PList(<<PStr("liver"), PStr("gallbladder")>>)]}

\* the note records appended: a note, a placeholder, a note without a text
AppendNotes ==
    {Note(PStr("clip applied"), ClockTs(10)), Note(PStr("Take a note "), ClockTs(10)),
     Note(PNone, ClockTs(0))}

\* the file at a path of the folder
FileAt(path) == IF path = "annotation" THEN annotation_json ELSE notetaker_json

\* the files after the one at the path is replaced
FileBecomes(path, file) ==
    IF path = "annotation"
    THEN annotation_json' = file /\ UNCHANGED notetaker_json
    ELSE notetaker_json' = file /\ UNCHANGED annotation_json

\* what an append leaves alone
AppendFrame ==
    UNCHANGED <<normVars, extractVars, loopVars, callVars, annotations, annotation_file,
                produced_by, callback_raised, now, ppc, failed_in_a_row, clock_end, lockVars, folder_exists,
                post_op_file, llm_assist_findings, final_json, note_result, refinement,
                note_requests, save_failed, gpc, settingsVars, sideVars>>

InitFiles ==
    /\ SideIdle
    /\ NormIdle
    /\ NoSettings
    /\ ProducerIdle
    /\ folder_exists = TRUE
    /\ annotation_json \in StartFiles
    /\ notetaker_json \in StartFiles
    /\ post_op_file = [exists |-> FALSE]
    /\ llm_assist_findings = TRUE
    /\ final_json = <<>>
    /\ note_result = <<>>
    /\ refinement = [kind |-> "not run"]
    /\ note_requests = 0
    /\ save_failed = FALSE
    /\ gpc = "load"
    /\ append_call = [pc |-> "idle", path |-> "none", json_object |-> PNone,
                      seen |-> [exists |-> FALSE], result |-> [exists |-> FALSE]]
    /\ appended = [annotation |-> <<>>, notes |-> <<>>]
    /\ phase_min_consecutive = 2
    /\ phase_min_dwell_seconds = 15
    /\ timeline_max_entries = 250
    /\ ann_list = <<>>
    /\ note_list = <<>>
    /\ anns = <<>>
    /\ notes = <<>>
    /\ SmoothReset
    /\ facts = <<>>
    /\ epc = "idle"

\* append_json_to_file up to open(file_path, 'w'): an existing file is read first, and
\* the open leaves the file empty
AppendOpen(path, choices) ==
    /\ append_call.pc = "idle"
    /\ Len(appended[path]) < MaxAppends
    /\ \E json_object \in choices :
          append_call' = [pc |-> "writing", path |-> path, json_object |-> json_object,
                          seen |-> FileAt(path),
                          result |-> AppendedFile(json_object, FileAt(path))]
    /\ FileBecomes(path, PartialFile)
    /\ UNCHANGED <<appended, io_failures>>
    /\ AppendFrame

\* the file cannot be read or opened: the exception is logged and the call returns
AppendRefused(path, choices) ==
    /\ append_call.pc = "idle"
    /\ Len(appended[path]) < MaxAppends
    /\ io_failures < MaxFailures
    /\ \E json_object \in choices :
          append_call' = [pc |-> "idle", path |-> path, json_object |-> json_object,
                          seen |-> FileAt(path), result |-> FileAt(path)]
    /\ io_failures' = io_failures + 1
    /\ UNCHANGED <<annotation_json, notetaker_json, appended>>
    /\ AppendFrame

\* json.dump writes the list and the file is closed
AppendDump ==
    /\ append_call.pc = "writing"
    /\ append_call' = [append_call EXCEPT !.pc = "idle"]
    /\ FileBecomes(append_call.path, append_call.result)
    /\ appended' = [appended EXCEPT ![append_call.path] = Append(@, append_call.json_object)]
    /\ UNCHANGED io_failures
    /\ AppendFrame

\* json.dump raises: the exception is logged, the call returns, the file stays cut short
AppendDumpFails ==
    /\ append_call.pc = "writing"
    /\ io_failures < MaxFailures
    /\ append_call' = [append_call EXCEPT !.pc = "idle", !.result = PartialFile]
    /\ io_failures' = io_failures + 1
    /\ UNCHANGED <<annotation_json, notetaker_json, appended>>
    /\ AppendFrame

NextFiles ==
    \/ AppendOpen("annotation", AppendAnnotations) \/ AppendOpen("notes", AppendNotes)
    \/ AppendRefused("annotation", AppendAnnotations) \/ AppendRefused("notes", AppendNotes)
    \/ AppendDump \/ AppendDumpFails
    \/ LoadInputs

SpecFiles == InitFiles /\ [][NextFiles]_vars

-----------------------------------------------------------------------------
(* Properties of the files of a procedure folder *)

\* a file that is missing, holds no JSON, or holds a JSON value that is no array
Unusable(file) == ~file.exists \/ ~file.decodable \/ file.data.py # "list"

\* C21: a load of an annotation or notes file that is missing, malformed or not an
\* array returns the empty list, and the generation goes on; an append to such a file
\* whose write completes leaves the file holding the new record alone.
UnusableFileIsEmptyList ==
    [][/\ (gpc = "load" /\ gpc' # "load") =>
             /\ gpc' \in {"extract", "done"}
             /\ Unusable(annotation_json) => ann_list' = <<>>
             /\ Unusable(notetaker_json) => note_list' = <<>>
       /\ (/\ append_call.pc = "writing" /\ append_call'.pc = "idle"
           /\ io_failures' = io_failures
           /\ Unusable(append_call.seen)) =>
             IF append_call.path = "annotation"
             THEN annotation_json' = JsonFile(PList(<<append_call.json_object>>))
             ELSE notetaker_json' = JsonFile(PList(<<append_call.json_object>>))
      ]_vars

\* a generation has loaded two unusable files and returned the skeleton, and a note was
\* then appended to the notes file, which held a JSON object
UnusableFileIsEmptyListWitness ==
    /\ gpc = "done" /\ note_result = DefaultSkeleton
    /\ Unusable(annotation_json)
    /\ append_call.pc = "idle" /\ append_call.path = "notes"
    /\ append_call.seen.exists /\ append_call.seen.decodable
    /\ append_call.seen.data.py = "dict"
    /\ notetaker_json = JsonFile(PList(<<Note(PStr("clip applied"), ClockTs(10))>>))

\* no append is in progress and no write has failed
AppendsCompleted == append_call.pc = "idle" /\ io_failures = 0

\* C22: once the appends to a file have completed, with no write failed, loading the
\* file returns the records appended to it, in the order of the appends and with their
\* content, for the annotation file and for the notes file.
AppendedRecordsReadBack ==
    AppendsCompleted =>
        /\ _load_json_array(annotation_json, FALSE) = appended.annotation
        /\ _load_json_array(notetaker_json, TRUE) = appended.notes

\* C26: a generation that loads the annotation file while an append to it is in progress
\* gets the whole array of before the append or the whole array of after it.
LoadDuringAppendSeesWholeArray ==
    [][(/\ gpc = "load" /\ gpc' # "load"
        /\ append_call.pc = "writing" /\ append_call.path = "annotation") =>
          \/ ann_list' = _load_json_array(append_call.seen, FALSE)
          \/ ann_list' = _load_json_array(append_call.result, FALSE)
      ]_vars

-----------------------------------------------------------------------------
(* Properties of the clinical fields of the note *)

\* the loaded notes whose text holds the blood-loss pattern, by position in the file
MatchingNotes ==
    {i \in DOMAIN note_list :
        /\ NoteText(note_list[i]) # ""
        /\ BloodLossSearch(Lower(NoteText(note_list[i]))).ok}

\* the matching note that no other matching note precedes in time; of two notes with
\* one timestamp the one earlier in the file
FirstMatchingNote ==
    CHOOSE i \in MatchingNotes :
        \A j \in MatchingNotes \ {i} :
            \/ DtLess(ts_key(note_list[i]), ts_key(note_list[j]))
            \/ ts_key(note_list[i]) = ts_key(note_list[j]) /\ i < j

\* C23: the blood_loss_estimate of a returned note is the number and the unit (ml when
\* the note names none) captured from the chronologically first note whose text matches
\* the blood-loss pattern, whatever later notes say, and "Not specified" when no note
\* matches; the note "EBL: 250 ml" gives "250 ml".
BloodLossFromFirstMatchingNote ==
    (gpc = "done" /\ note_result # PNone) =>
        /\ IF MatchingNotes = {}
           THEN note_result.blood_loss_estimate = PStr("Not specified")
           ELSE LET m == BloodLossSearch(Lower(NoteText(note_list[FirstMatchingNote])))
                IN note_result.blood_loss_estimate = PStr(m.val \o " " \o m.unit)
        /\ (MatchingNotes # {} /\ NoteText(note_list[FirstMatchingNote]) = "EBL: 250 ml")
              => note_result.blood_loss_estimate = PStr("250 ml")

\* two notes match, the later one first in the file: the estimate is that of the earlier
BloodLossFromFirstMatchingNoteWitness ==
    /\ gpc = "done" /\ note_result # PNone
    /\ Cardinality(MatchingNotes) = 2
    /\ FirstMatchingNote = 2
    /\ note_result.blood_loss_estimate = PStr("50 cc")

\* the value of a field under the three-tier merge: that of the agent's configuration
\* when it sets the field, else that of the global configuration when it sets the field,
\* else the built-in default
ThreeTier(agent, global, field, builtin) == Get(agent, field, Get(global, field, builtin))

\* the personnel fields of a returned note follow the three-tier merge
PersonnelThreeTier ==
    (gpc = "done" /\ note_result # PNone) =>
        \A field \in {"surgeon", "assistant", "anaesthetist"} :
            note_result.personnel[field] =
                ThreeTier(Get(Get(agent_settings, "defaults", <<>>), "personnel", <<>>),
                          Get(global_settings, "personnel", <<>>), field, "Not specified")

\* C24: in a returned note each personnel field, procedure_type and procedure_nature
\* has the value of the agent's configuration when that sets the field, else the value of
\* the global configuration when that sets the field, else the built-in default.
DefaultsThreeTier ==
    /\ PersonnelThreeTier
    /\ (gpc = "done" /\ note_result # PNone) =>
          /\ note_result.procedure_type =
                ThreeTier(Get(agent_settings, "defaults", <<>>), global_settings,
                          "procedure_type", "laparoscopic cholecystectomy")
          /\ note_result.procedure_nature =
                ThreeTier(Get(agent_settings, "defaults", <<>>), global_settings,
                          "procedure_nature", "unknown")

-----------------------------------------------------------------------------
(* Properties of the producer's requests and of its loop *)

\* C25: when a model request for a frame ends with a transient endpoint error, a timeout
\* or another failure, the producer either asks again for the same frame, appending
\* nothing, or, when this was the last of the max_retries + 1 failed attempts, appends
\* the fallback.
TransientErrorsAreRetried ==
    [][(ppc = "in_flight" /\ ppc' # "in_flight" /\ endpoint_error' # "none") =>
          \/ /\ ppc' = "request"
             /\ annotations' = annotations
          \/ /\ annotations' = Append(annotations, fallback_annotation)
             /\ retry_count' = max_retries + 1
      ]_vars

\* C27: an iteration in which the write of the annotation to the file fails, or the
\* observer callback raises, still appends the annotation to the in-memory list, leaves
\* the count of consecutive errors as it was, and ends at the next poll of the loop.
FailedOutputKeepsLoop ==
    [][(io_failures' = io_failures + 1 \/ (~callback_raised /\ callback_raised')) =>
          /\ Len(annotations') = Len(annotations) + 1
          /\ SubSeq(annotations', 1, Len(annotations)) = annotations
          /\ consecutive_errors' = consecutive_errors
          /\ failed_in_a_row' = failed_in_a_row
          /\ ppc' = "poll"
      ]_vars

\* the write of the first annotation failed, the loop went on to a second annotation
\* and the observer raised on it: both are in the list and no error is counted
FailedOutputKeepsLoopWitness ==
    /\ Len(annotations) = 2
    /\ io_failures = 1
    /\ annotation_file = JsonFile(PList(<<annotations[2]>>))
    /\ callback_raised
    /\ consecutive_errors = 0
    /\ ppc = "poll"

\* C28: the model lock is held only while an exchange with the endpoint is going on:
\* by the producer while its request is in flight, by a chat agent while its request is
\* in flight. Whatever way a request ended (a text, an empty text after a swallowed
\* failure, a raised timeout), the lock is free for the next caller.
LockReleasedOnEveryExit ==
    /\ llm_lock = "producer" <=> ppc = "in_flight"
    /\ llm_lock = "chat" <=> "chat" \in in_flight
    /\ llm_lock \in {"free", "producer", "chat"}

\* after a timeout of the producer's request a chat agent holds the lock
LockReleasedOnEveryExitWitness ==
    /\ endpoint_error = "timeout"
    /\ ppc = "request"
    /\ llm_lock = "chat"

\* after a swallowed failure of the producer's request the lock was taken again
LockTakenAfterFailure ==
    /\ endpoint_error = "failure"
    /\ ppc = "poll"
    /\ llm_lock = "chat"

\* the poll fetches a frame that is not a string of at least MinFrameLength characters
FetchesUnusableFrame ==
    /\ ppc = "poll" /\ ~stop_event
    /\ frame_queue # <<>>
    /\ ~ValidFrame(Head(frame_queue))
    /\ frame_queue' = Tail(frame_queue)

\* C29: a poll that finds the queue empty, or that fetches a frame that is not a string
\* of at least 1000 characters, sends no model request, appends nothing to the list or
\* to the file, does not increase the count of consecutive errors, sleeps the interval
\* and polls again.
FruitlessPollHasNoEffect ==
    [][(PollEmpty \/ FetchesUnusableFrame) =>
          /\ requests' = requests
          /\ in_flight' = in_flight
          /\ annotations' = annotations
          /\ annotation_file' = annotation_file
          /\ consecutive_errors' <= consecutive_errors
          /\ now' = now + time_step
          /\ ppc' = "poll"
      ]_vars

-----------------------------------------------------------------------------
(* Properties of the returned timeline *)

\* the entries are in non-decreasing order of the parsed timestamp (datetime.min for a
\* timestamp that does not parse, as in the sort)
InTimeOrder(t) ==
    \A i, j \in DOMAIN t : i < j => ~DtLess(EventKey(t[j]), EventKey(t[i]))

\* the positions of the entries whose event text begins with the prefix
EntriesWith(t, prefix) == {i \in DOMAIN t : StartsWith(t[i].event, 1, prefix)}

\* one phase event per accepted segment and one note event per note with non-empty text
OneEventPerSegmentAndNote(t) ==
    /\ Cardinality(EntriesWith(t, "Phase started: ")) = Len(smoothed_segments)
    /\ \A k \in DOMAIN smoothed_segments :
          \E i \in DOMAIN t :
             t[i] = [time |-> smoothed_segments[k].start_time,
                     event |-> "Phase started: " \o smoothed_segments[k].phase]
    /\ Cardinality(EntriesWith(t, "Note: ")) =
          Cardinality({k \in DOMAIN notes : NoteText(notes[k]) # ""})
    /\ \A k \in DOMAIN notes :
          NoteText(notes[k]) # "" =>
             \E i \in DOMAIN t : t[i].event = "Note: " \o NoteText(notes[k])

\* the cap has replaced the middle of the timeline by the marker
TimelineCapped ==
    /\ timeline_max_entries # 0
    /\ Len(MergedTimeline(smoothed_segments, notes)) > timeline_max_entries

\* C30: the returned timeline holds exactly one phase event per accepted segment and
\* one note event per note with non-empty text (the events the cap left out excepted),
\* and its entries are in non-decreasing order of parsed timestamp, also after the cap
\* has inserted the "events omitted" marker.
TimelineCompleteAndOrdered ==
    epc = "done" =>
        /\ ~TimelineCapped => OneEventPerSegmentAndNote(facts.timeline)
        /\ InTimeOrder(facts.timeline)

\* the timeline below the cap is complete and ordered
UncappedTimelineCompleteAndOrdered ==
    (epc = "done" /\ ~TimelineCapped) =>
        /\ OneEventPerSegmentAndNote(facts.timeline)
        /\ InTimeOrder(facts.timeline)

-----------------------------------------------------------------------------
(* _extract_facts: the cap applied to timelines of up to a thousand events *)

\* the most events of a sorted timeline
MaxEvents == 1000

\* the i-th event of a procedure with a note every second
NoteEvent(i) == [time |-> strftime(LocalTime(i)), event |-> "Note: " \o IntStr(i)]

\* the lengths of the timelines: short ones, those around the default cap, the longest
TimelineLengths ==
    {n \in 0..MaxEvents : n <= 5 \/ n \in 249..252 \/ n >= MaxEvents - 2}

InitCap ==
    /\ NormIdle
    /\ ProducerIdle
    /\ GenerationIdle
    /\ phase_min_consecutive = 2
    /\ phase_min_dwell_seconds = 15
    /\ timeline_max_entries \in {0, 1, 4, 8, 250, 400}
    /\ ann_list = <<>>
    /\ note_list = <<>>
    /\ anns = <<>>
    /\ notes = <<>>
    /\ SmoothReset
    /\ facts = <<>>
    /\ epc = "idle"
    /\ \E n \in TimelineLengths : sorted_timeline = [i \in 1..n |-> NoteEvent(i)]
    /\ capped_timeline = <<>>
    /\ tpc = "merged"
    /\ WaitIdle
    /\ ChunkIdle

\* the cap on the sorted timeline; start_ts_str is the timestamp of the first note
CapStep ==
    /\ tpc = "merged"
    /\ capped_timeline' =
          CapTimeline(sorted_timeline,
                      IF sorted_timeline = <<>> THEN PNone ELSE PStr(sorted_timeline[1].time))
    /\ tpc' = "capped"
    /\ UNCHANGED <<normVars, extractVars, producerVars, folder_exists, annotation_json,
                   notetaker_json, post_op_file, llm_assist_findings, final_json, note_result,
                   refinement, note_requests, save_failed, gpc, fileVars, settingsVars,
                   sorted_timeline, waitVars, chunkVars>>

SpecCap == InitCap /\ [][CapStep]_vars

\* C31: when 1000 events are capped at 250, the 62 earliest events stand before the
\* marker and the 188 latest events after it.
CapKeepsQuarterHead ==
    (tpc = "capped" /\ Len(sorted_timeline) = 1000 /\ timeline_max_entries = 250) =>
        /\ SubSeq(capped_timeline, 1, 62) = SubSeq(sorted_timeline, 1, 62)
        /\ IsOmittedMarker(capped_timeline[63])
        /\ SubSeq(capped_timeline, 64, Len(capped_timeline)) = SubSeq(sorted_timeline, 813, 1000)

\* 1000 events capped at 250: the 50 earliest events, the marker, the 200 latest events
CapKeepsFiftyHead ==
    (tpc = "capped" /\ Len(sorted_timeline) = 1000 /\ timeline_max_entries = 250) =>
        /\ SubSeq(capped_timeline, 1, 50) = SubSeq(sorted_timeline, 1, 50)
        /\ capped_timeline[51] =
              [time |-> sorted_timeline[1].time, event |-> "... 750 events omitted ..."]
        /\ SubSeq(capped_timeline, 52, Len(capped_timeline)) = SubSeq(sorted_timeline, 801, 1000)

-----------------------------------------------------------------------------
(* Properties of the phase summary *)

\* the position of the first accepted segment of the phase
FirstSegmentOf(ph) ==
    CHOOSE i \in DOMAIN smoothed_segments :
        /\ smoothed_segments[i].phase = ph
        /\ \A j \in 1..(i - 1) : smoothed_segments[j].phase # ph

\* C32: phases_ordered lists each accepted phase exactly once, in the order of the
\* first accepted segments, and phase_first_seen_time maps each phase to the start_time
\* of its first segment; a later segment of the same phase changes neither.
PhasesRecordFirstOccurrence ==
    epc = "done" =>
        LET po == facts.phases_ordered
            seen == facts.phase_first_seen_time
            accepted == {smoothed_segments[i].phase : i \in DOMAIN smoothed_segments}
        IN /\ {po[i] : i \in DOMAIN po} = accepted
           /\ \A i, j \in DOMAIN po :
                 i < j => /\ po[i] # po[j]
                          /\ FirstSegmentOf(po[i]) < FirstSegmentOf(po[j])
           /\ DOMAIN seen = accepted
           /\ \A ph \in accepted : seen[ph] = smoothed_segments[FirstSegmentOf(ph)].start_time

\* a phase was accepted, left and accepted again later: it is listed once, with the
\* start of its first segment
PhasesRecordFirstOccurrenceWitness ==
    /\ epc = "done"
    /\ Len(smoothed_segments) = 3
    /\ smoothed_segments[1].phase = smoothed_segments[3].phase
    /\ smoothed_segments[1].start_time # smoothed_segments[3].start_time
    /\ Len(facts.phases_ordered) = 2
    /\ facts.phase_first_seen_time[smoothed_segments[3].phase] = smoothed_segments[1].start_time

\* the seconds from the start of segment i to the start of the next segment, or to the
\* end of the procedure for the last segment
SegmentSeconds(i) ==
    LET next == IF i < Len(smoothed_segments)
                THEN PStr(smoothed_segments[i + 1].start_time)
                ELSE facts.end_time
    IN TotalSeconds(_parse_ts(next), _parse_ts(PStr(smoothed_segments[i].start_time)))

\* the seconds of the segments of the phase among the first n segments
RECURSIVE SecondsIn(_, _)
SecondsIn(ph, n) ==
    IF n = 0 THEN 0
    ELSE SecondsIn(ph, n - 1)
         + (IF smoothed_segments[n].phase = ph THEN SegmentSeconds(n) ELSE 0)

\* C33: the duration of a phase is the sum, over all accepted segments of the phase, of
\* the seconds from the start of the segment to the start of the next segment, or to the
\* end of the procedure for the last segment.
PhaseDurationSumsItsSegments ==
    epc = "done" =>
        /\ DOMAIN facts.phase_durations =
              {smoothed_segments[i].phase : i \in DOMAIN smoothed_segments}
        /\ \A ph \in DOMAIN facts.phase_durations :
              facts.phase_durations[ph] = SecondsIn(ph, Len(smoothed_segments))

\* a phase accepted twice, 20 s each time, has 40 s
PhaseDurationSumsItsSegmentsWitness ==
    /\ epc = "done"
    /\ Len(smoothed_segments) = 3
    /\ smoothed_segments[1].phase = smoothed_segments[3].phase
    /\ SegmentSeconds(1) = 20
    /\ SegmentSeconds(3) = 20
    /\ facts.phase_durations[smoothed_segments[1].phase] = 40

\* the sum of the values of a function of numbers
RECURSIVE SumOf(_)
SumOf(d) ==
    IF DOMAIN d = {} THEN 0
    ELSE LET k == CHOOSE k \in DOMAIN d : TRUE
         IN d[k] + SumOf([j \in DOMAIN d \ {k} |-> d[j]])

EveryTimestampParses == \A i \in DOMAIN anns : _parse_ts(anns[i].timestamp) # PNone

\* C34: when every annotation timestamp parses, the durations of the phases add up to
\* the seconds from the start of the first accepted segment to the timestamp of the
\* last annotation.
DurationsSumToSpan ==
    (epc = "done" /\ EveryTimestampParses /\ smoothed_segments # <<>>) =>
        SumOf(facts.phase_durations) =
            TotalSeconds(_parse_ts(anns[Len(anns)].timestamp),
                         _parse_ts(PStr(smoothed_segments[1].start_time)))

\* two phases share 20 s, 10 s each
DurationsSumToSpanWitness ==
    /\ epc = "done"
    /\ EveryTimestampParses
    /\ Len(smoothed_segments) = 2
    /\ \A ph \in DOMAIN facts.phase_durations : facts.phase_durations[ph] = 10
    /\ SumOf(facts.phase_durations) = 20

-----------------------------------------------------------------------------
(* Properties of the aggregated tools and anatomy *)

\* the values under the key in the annotations handed to the extractor, "none" left out
NamedIn(key) ==
    UNION {{ann_list[i][key].items[j].s : j \in DOMAIN ann_list[i][key].items} :
             i \in DOMAIN ann_list}
    \ {"none"}

StrictlyAscending(l) == \A i \in 1..(Len(l) - 1) : StrLess(l[i], l[i + 1])

\* the annotation takes no part in the segments: its timestamp does not parse, or its
\* phase was not accepted
LeftOutBySmoother(a) ==
    \/ _parse_ts(a.timestamp) = PNone
    \/ \A i \in DOMAIN smoothed_segments : PStr(smoothed_segments[i].phase) # a.surgical_phase

\* C35: the aggregated tools and anatomy are the tools and anatomy of all annotations
\* handed to the extractor, "none" left out, in ascending order.
AggregatesCoverAllAnnotations ==
    epc = "done" =>
        /\ {facts.tools[i] : i \in DOMAIN facts.tools} = NamedIn("tools")
        /\ {facts.anatomy[i] : i \in DOMAIN facts.anatomy} = NamedIn("anatomy")
        /\ StrictlyAscending(facts.tools)
        /\ StrictlyAscending(facts.anatomy)

\* the tools of an annotation without a usable timestamp and the anatomy of an
\* annotation of a suppressed phase are in the aggregates
AggregatesCoverAllAnnotationsWitness ==
    /\ epc = "done"
    /\ smoothed_segments # <<>>
    /\ \E i, j \in DOMAIN ann_list :
          /\ _parse_ts(ann_list[i].timestamp) = PNone
          /\ _parse_ts(ann_list[j].timestamp) # PNone
          /\ LeftOutBySmoother(ann_list[j])
          /\ ann_list[j].surgical_phase = PStr("calots_triangle_dissection")
    /\ facts.tools = <<"clipper", "hook", "scissors">>
    /\ facts.anatomy = <<"cystic_duct", "gallbladder", "liver">>

-----------------------------------------------------------------------------
(* Properties of the synthesized description *)

\* the descriptions of the template that name a tool and an anatomy other than "none"
NamingDescriptions ==
    {t \o " interacting with " \o a :
        t \in tools_enum \ {"none"}, a \in anatomy_enum \ {"none"}}

\* C36: a description synthesized for a missing or blank one either names a tool and
\* an anatomy other than "none" in the template, or is the generic message.
SynthesizedNamesNoNone ==
    (npc # "raw" /\ DescriptionMissing(get_any(data, DescKeys, PNone))) =>
        \/ normalized.description \in NamingDescriptions
        \/ normalized.description = "Scene reviewed; limited identifiable details"

\* the same for the outputs whose tools and anatomy lists do not hold "none" next to
\* another value
SynthesizedNamesNoNoneUnmixed ==
    (/\ npc # "raw"
     /\ DescriptionMissing(get_any(data, DescKeys, PNone))
     /\ "none" \in {normalized.tools[i] : i \in DOMAIN normalized.tools} => normalized.tools = <<"none">>
     /\ "none" \in {normalized.anatomy[i] : i \in DOMAIN normalized.anatomy} =>
            normalized.anatomy = <<"none">>) =>
        \/ normalized.description \in NamingDescriptions
        \/ normalized.description = "Scene reviewed; limited identifiable details"

-----------------------------------------------------------------------------
(* Properties of the refinement and of the files of a generation *)

\* the note without its findings
ButFindings(note) == [k \in DOMAIN note \ {"findings"} |-> note[k]]

\* C37: whatever the refinement request does, every field of the returned note other
\* than findings is the one of the note built from the facts.
RefinementChangesOnlyFindings ==
    (gpc = "done" /\ refinement.kind # "not run") =>
        ButFindings(note_result) = ButFindings(_build_final_json_from_facts(facts))

\* an answer replaced the findings of a note with a timeline
RefinementChangesOnlyFindingsWitness ==
    /\ gpc = "done"
    /\ refinement.kind = "answered"
    /\ note_result.findings = "Dissection of the triangle."
    /\ note_result.findings # _build_final_json_from_facts(facts).findings
    /\ note_result.timeline # <<>>

\* the generation ends at the folder check or at the two empty lists
EndsEarly == gpc = "load" /\ gpc' = "done"

\* C38: a generation that ends at the folder check or at the two empty lists leaves
\* post_op_note.json as it was, and no step of a generation writes the annotation file
\* or the notes file.
EarlyExitWritesNothing ==
    [][/\ EndsEarly => post_op_file' = post_op_file
       /\ annotation_json' = annotation_json
       /\ notetaker_json' = notetaker_json]_vars

\* the skeleton was returned from a folder that keeps the note of an earlier generation
EarlyExitWritesNothingWitness ==
    /\ gpc = "done"
    /\ folder_exists
    /\ note_result = DefaultSkeleton
    /\ note_requests = 0
    /\ ~save_failed
    /\ post_op_file = JsonFile(EarlierNote)

-----------------------------------------------------------------------------
(* Agent._wait_for_server: the wait for the model endpoint at construction *)

\* the default of the timeout parameter, the only value __init__ calls it with
timeout == 60

\* what a probe of <llm_url>/models ends with: a status code, or an exception of
\* requests.get
ProbeOutcomes ==
    {[kind |-> "response", status_code |-> c] : c \in {200, 404, 503}} \cup {[kind |-> "raised"]}

\* r.status_code == 200
Answered(outcome) == outcome.kind = "response" /\ outcome.status_code = 200

InitWait ==
    /\ NormIdle
    /\ ExtractIdle
    /\ epc = "idle"
    /\ ProducerIdle
    /\ GenerationIdle
    /\ CapIdle
    /\ ChunkIdle
    /\ attempts = 0
    /\ probe = [kind |-> "none"]
    /\ waited = 0
    /\ wpc = "loop"

\* one turn of the loop up to the sleep: the probe, and the return on status 200
WaitProbe ==
    /\ wpc = "loop"
    /\ attempts < timeout
    /\ \E outcome \in ProbeOutcomes :
          /\ probe' = outcome
          /\ wpc' = IF Answered(outcome) THEN "returned" ELSE "sleep"
    /\ UNCHANGED <<normVars, extractVars, producerVars, folder_exists, annotation_json,
                   notetaker_json, post_op_file, llm_assist_findings, final_json, note_result,
                   refinement, note_requests, save_failed, gpc, fileVars, settingsVars,
                   capVars, chunkVars, attempts, waited>>

\* the sleep without the count of the attempt
WaitSleep_uncounted ==
    /\ wpc = "sleep"
    /\ waited' = waited + 1
    /\ attempts' = attempts
    /\ wpc' = "loop"
    /\ UNCHANGED <<normVars, extractVars, producerVars, folder_exists, annotation_json,
                   notetaker_json, post_op_file, llm_assist_findings, final_json, note_result,
                   refinement, note_requests, save_failed, gpc, fileVars, settingsVars,
                   capVars, chunkVars, probe>>

\* time.sleep(1) and attempts += 1
WaitSleep ==
    /\ wpc = "sleep"
    /\ waited' = waited + 1
    /\ attempts' = attempts + 1
    /\ wpc' = "loop"
    /\ UNCHANGED <<normVars, extractVars, producerVars, folder_exists, annotation_json,
                   notetaker_json, post_op_file, llm_assist_findings, final_json, note_result,
                   refinement, note_requests, save_failed, gpc, fileVars, settingsVars,
                   capVars, chunkVars, probe>>

\* the loop has ended without a return: ConnectionError leaves __init__
WaitGiveUp ==
    /\ wpc = "loop"
    /\ attempts >= timeout
    /\ wpc' = "raised"
    /\ UNCHANGED <<normVars, extractVars, producerVars, folder_exists, annotation_json,
                   notetaker_json, post_op_file, llm_assist_findings, final_json, note_result,
                   refinement, note_requests, save_failed, gpc, fileVars, settingsVars,
                   capVars, chunkVars, attempts, probe, waited>>

NextWait == WaitProbe \/ WaitSleep \/ WaitGiveUp

SpecWait == InitWait /\ [][NextWait]_vars

\* the loop runs whenever it can: every probe ends, with an answer or an exception
SpecWaitLive == SpecWait /\ WF_vars(NextWait)

\* the construction has ended: __init__ returned the agent, or raised
WaitEnded == wpc \in {"returned", "raised"}

-----------------------------------------------------------------------------
(* ehr.builder._chunk_text: the token chunks of a text of the EHR index *)

\* the most tokens of a text
MaxTokens == 5

\* the largest chunk_tokens and overlap_tokens
MaxChunkTokens == 3

\* the most chunks a call is followed for: more than any call that returns appends
MaxChunks == MaxTokens + 2

\* ids[a:b] for 0 <= a and 0 <= b
Slice(l, a, b) == SubSeq(l, a + 1, Min(b, Len(l)))

InitChunk ==
    /\ NormIdle
    /\ ExtractIdle
    /\ epc = "idle"
    /\ ProducerIdle
    /\ GenerationIdle
    /\ CapIdle
    /\ WaitIdle
    /\ \E n \in 0..MaxTokens : ids = [k \in 1..n |-> k]
    /\ chunk_tokens \in 0..MaxChunkTokens
    /\ overlap_tokens \in 0..MaxChunkTokens
    /\ start = 0
    /\ chunks = <<>>
    /\ cpc = "loop"

\* a turn of `while start < len(ids)` up to chunks.append; of a call that does not
\* return, the first MaxChunks chunks are kept
ChunkAppend ==
    /\ cpc = "loop"
    /\ start < Len(ids)
    /\ LET end == Min(start + chunk_tokens, Len(ids))
       IN chunks' = IF Len(chunks) < MaxChunks
                    THEN Append(chunks, Slice(ids, start, end))
                    ELSE chunks
    /\ cpc' = "appended"
    /\ UNCHANGED <<normVars, extractVars, producerVars, folder_exists, annotation_json,
                   notetaker_json, post_op_file, llm_assist_findings, final_json, note_result,
                   refinement, note_requests, save_failed, gpc, fileVars, settingsVars,
                   capVars, waitVars, ids, chunk_tokens, overlap_tokens, start>>

\* the rest of the turn: the loop ends at the last token, or goes on overlap_tokens
\* before the end of the chunk
ChunkAdvance ==
    /\ cpc = "appended"
    /\ LET end == Min(start + chunk_tokens, Len(ids))
       IN IF end = Len(ids)
          THEN cpc' = "returned" /\ UNCHANGED start
          ELSE cpc' = "loop" /\ start' = Max(end - overlap_tokens, 0)
    /\ UNCHANGED <<normVars, extractVars, producerVars, folder_exists, annotation_json,
                   notetaker_json, post_op_file, llm_assist_findings, final_json, note_result,
                   refinement, note_requests, save_failed, gpc, fileVars, settingsVars,
                   capVars, waitVars, ids, chunk_tokens, overlap_tokens, chunks>>

\* the loop condition fails: no token
ChunkNone ==
    /\ cpc = "loop"
    /\ start >= Len(ids)
    /\ cpc' = "returned"
    /\ UNCHANGED <<normVars, extractVars, producerVars, folder_exists, annotation_json,
                   notetaker_json, post_op_file, llm_assist_findings, final_json, note_result,
                   refinement, note_requests, save_failed, gpc, fileVars, settingsVars,
                   capVars, waitVars, ids, chunk_tokens, overlap_tokens, start, chunks>>

NextChunk == ChunkAppend \/ ChunkAdvance \/ ChunkNone

SpecChunk == InitChunk /\ [][NextChunk]_vars

\* the loop runs whenever it can
SpecChunkLive == SpecChunk /\ WF_vars(NextChunk)

\* C40: the chunking of a text returns, for every chunk_tokens and overlap_tokens.
ChunkingTerminates == <>(cpc = "returned")

\* every turn of the loop that does not return moves start forward
ChunkingAdvances == [][(cpc = "appended" /\ cpc' = "loop") => start' > start]_vars

\* overlap_tokens below chunk_tokens
ValidChunking == 0 <= overlap_tokens /\ overlap_tokens < chunk_tokens

\* with overlap_tokens below chunk_tokens the chunking returns
ValidChunkingTerminates == ValidChunking => <>(cpc = "returned")

\* with overlap_tokens below chunk_tokens the chunks returned hold every token in
\* order: the first starts at the first token, each next one starts overlap_tokens
\* before the end of the one before it, and the last ends at the last token
ValidChunkingCovers ==
    (ValidChunking /\ cpc = "returned" /\ ids # <<>>) =>
        /\ chunks # <<>>
        /\ Head(chunks[1]) = 1
        /\ chunks[Len(chunks)][Len(chunks[Len(chunks)])] = Len(ids)
        /\ \A i \in DOMAIN chunks :
              /\ chunks[i] # <<>>
              /\ Len(chunks[i]) <= chunk_tokens
              /\ \A j \in 1..(Len(chunks[i]) - 1) : chunks[i][j + 1] = chunks[i][j] + 1
        /\ \A i \in 1..(Len(chunks) - 1) :
              /\ Len(chunks[i]) = chunk_tokens
              /\ Head(chunks[i + 1]) = chunks[i][Len(chunks[i])] + 1 - overlap_tokens

=============================================================================
